---- MODULE Spec2Model ----
(***************************************************************************)
(* Note lifecycle of yapgan (backend/internal/notes): the note service,    *)
(* its PostgreSQL repositories and the versioning triggers of migration    *)
(* 008, with the vector index and the detached goroutines of the service.  *)
(*                                                                         *)
(* Granularity: one action per SQL statement (or per transaction, for the  *)
(* two repository methods that open one), so that the handlers of several  *)
(* requests and the goroutines interleave exactly where the code lets      *)
(* them.  A trigger runs inside the statement that fires it.               *)
(*                                                                         *)
(* Strings whose characters the code inspects (titles, bodies, tag names,  *)
(* slugs) are tuples of one-character strings.                             *)
(***************************************************************************)
EXTENDS Integers, Sequences, FiniteSets, Bags, TLC

(***************************************************************************)
(* Bounds                                                                  *)
(***************************************************************************)
(* versions kept per note: an update that would write one more is not taken *)
MaxVersions == 3
(* goroutines that may still be running when a worker accepts its next request *)
MaxPending == 0
(* the same, in the specifications about requests that overtake their goroutines *)
MaxOverlap == 1
(* views counted per note: a public read that would count one more is not taken *)
MaxViews == 1

(***************************************************************************)
(* Program constants                                                       *)
(***************************************************************************)
SlugMaxLen == 100

(* a nil pointer or NULL: of an atom, of a string of characters, of a list of tag names *)
None == "none"
Nil == <<"none">>
NoTags == <<Nil>>

(***************************************************************************)
(* Text utilities                                                          *)
(***************************************************************************)
LowerChar(c) ==
  CASE c = "A" -> "a"
    [] c = "B" -> "b"
    [] c = "T" -> "t"
    [] OTHER -> c

ToLower(s) == [i \in 1..Len(s) |-> LowerChar(s[i])]

RECURSIVE TrimLeft(_, _)
TrimLeft(s, c) ==
  IF s # <<>> /\ Head(s) = c THEN TrimLeft(Tail(s), c) ELSE s

RECURSIVE TrimRight(_, _)
TrimRight(s, c) ==
  IF s # <<>> /\ s[Len(s)] = c THEN TrimRight(SubSeq(s, 1, Len(s) - 1), c) ELSE s

Trim(s, c) == TrimRight(TrimLeft(s, c), c)

TrimSpace(s) == Trim(s, " ")

SeqContains(s, x) == \E i \in 1..Len(s) : s[i] = x

RECURSIVE UniqueFrom(_, _)
UniqueFrom(input, result) ==
  IF input = <<>> THEN result
  ELSE UniqueFrom(Tail(input),
                  IF SeqContains(result, Head(input)) THEN result
                  ELSE Append(result, Head(input)))

uniqueStrings(input) == UniqueFrom(input, <<>>)

(* first index >= i at which s holds c, or 0 *)
RECURSIVE IndexFrom(_, _, _)
IndexFrom(s, c, i) ==
  IF i > Len(s) THEN 0
  ELSE IF s[i] = c THEN i
  ELSE IndexFrom(s, c, i + 1)

(* all leftmost non-overlapping matches of \[\[([^\]]+)\]\] from position i *)
RECURSIVE LinkMatches(_, _)
LinkMatches(s, i) ==
  IF i + 4 > Len(s) THEN <<>>
  ELSE IF s[i] = "[" /\ s[i + 1] = "["
    THEN LET j == IndexFrom(s, "]", i + 2) IN
         IF j > i + 2 /\ j + 1 <= Len(s) /\ s[j + 1] = "]"
         THEN <<SubSeq(s, i + 2, j - 1)>> \o LinkMatches(s, j + 2)
         ELSE LinkMatches(s, i + 1)
    ELSE LinkMatches(s, i + 1)

ExtractNoteLinks(content) == uniqueStrings(LinkMatches(content, 1))

SlugChars == {"a", "b", "t", "x", "0", "1", "2", "3", "4", "-", "_"}

RECURSIVE Filter(_, _)
Filter(s, keep) ==
  IF s = <<>> THEN <<>>
  ELSE IF Head(s) \in keep THEN <<Head(s)>> \o Filter(Tail(s), keep)
  ELSE Filter(Tail(s), keep)

RECURSIVE Collapse(_, _)
Collapse(s, c) ==
  IF Len(s) < 2 THEN s
  ELSE IF s[1] = c /\ s[2] = c THEN Collapse(Tail(s), c)
  ELSE <<Head(s)>> \o Collapse(Tail(s), c)

(* the first characters of a note id (a UUID, so hexadecimal digits) *)
IdDigits == <<"1", "2", "3", "4">>
IdPrefix(noteID) == <<"0", IdDigits[noteID]>>

generateSlug(title, noteID) ==
  LET lowered == ToLower(title)
      hyphened == [i \in 1..Len(lowered) |-> IF lowered[i] = " " THEN "-" ELSE lowered[i]]
      cleaned == Filter(hyphened, SlugChars)
      collapsed == Collapse(cleaned, "-")
      trimmed == Trim(collapsed, "-")
      limited == IF Len(trimmed) > SlugMaxLen THEN SubSeq(trimmed, 1, SlugMaxLen) ELSE trimmed
  IN IF limited = <<>> THEN IdPrefix(noteID) ELSE limited

(***************************************************************************)
(* State                                                                   *)
(***************************************************************************)
VARIABLES
  notes,      \* notes table: id -> [owner, title, body, src, pub, slug, shared, views]
  nextId,     \* number of note ids handed out so far (ids are never reused)
  tags,       \* tags table: id -> [owner, name]
  nextTag,    \* number of tag ids handed out so far
  noteTags,   \* note_tags table: set of <<note id, tag id>>
  links,      \* note_links table: set of <<source id, target id>>
  versions,   \* note_versions rows of each note, in insertion order
  vec,        \* vector index: point id -> payload [owner, title, body]
  tasks,      \* bag of goroutines that were started and have not finished
  proc        \* the request each worker is serving and where it stands

rel == <<notes, nextId, tags, nextTag, noteTags, links, versions>>
vars == <<notes, nextId, tags, nextTag, noteTags, links, versions, vec, tasks, proc>>

Procs == {"w1", "w2"}
Users == {"u1", "u2"}

Idle == [pc |-> "idle", op |-> None, res |-> None, u |-> None, n |-> 0,
         body |-> Nil, tags |-> NoTags,
         vid |-> <<0, 0>>, pub |-> FALSE, ret |-> None,
         tagIDs |-> <<>>, i |-> 0, tgt |-> 0, name |-> Nil,
         titles |-> <<>>, snap |-> None, slug |-> Nil, count |-> 0, ids |-> {}]

NoTask == [kind |-> None, u |-> None, n |-> 0, title |-> Nil, body |-> Nil,
           pc |-> None, titles |-> <<>>, i |-> 0, tgt |-> 0, ids |-> {}]

Init ==
  /\ notes = << >>
  /\ nextId = 0
  /\ tags = << >>
  /\ nextTag = 0
  /\ noteTags = {}
  /\ links = {}
  /\ versions = << >>
  /\ vec = << >>
  /\ tasks = EmptyBag
  /\ proc = [p \in Procs |-> Idle]

(***************************************************************************)
(* Relational store: tables, constraints, cascades and triggers            *)
(***************************************************************************)
NoteIds == DOMAIN notes
TagIds == DOMAIN tags

Without(f, ks) == [k \in (DOMAIN f) \ ks |-> f[k]]
With(f, k, v) == [x \in (DOMAIN f) \cup {k} |-> IF x = k THEN v ELSE f[x]]

(* SELECT t.name FROM note_tags nt JOIN tags t ... WHERE nt.note_id = n *)
GetNoteTags(n) == {tags[nt[2]].name : nt \in {x \in noteTags : x[1] = n /\ x[2] \in TagIds}}

MaxVersionNumber(vs) ==
  IF vs = <<>> THEN 0
  ELSE CHOOSE m \in {vs[k].num : k \in 1..Len(vs)} : \A k \in 1..Len(vs) : vs[k].num <= m

(* a version row whose tags column is left at its default, the empty array *)
NewVersion_NoTags(num, row, n) ==
  [num |-> num, title |-> row.title, body |-> row.body, src |-> row.src, tags |-> {}]

NewVersion(num, row, n) ==
  [num |-> num, title |-> row.title, body |-> row.body, src |-> row.src,
   tags |-> GetNoteTags(n)]

(* an insert trigger that forgets the source URL *)
create_note_version_on_insert_NoSource(n, row) == <<[NewVersion(1, row, n) EXCEPT !.src = None]>>

(* AFTER INSERT trigger note_insert_version *)
create_note_version_on_insert(n, row) == <<NewVersion(1, row, n)>>

(* the trigger without its WHEN clause *)
ContentDistinct_Always(old, new) == TRUE

(* WHEN clause of trigger note_update_version *)
ContentDistinct(old, new) ==
  \/ old.title # new.title
  \/ old.body # new.body
  \/ old.src # new.src

(* a trigger that overwrites the latest version instead of inserting one *)
create_note_version_Overwrite(n, new) ==
  [versions[n] EXCEPT ![Len(versions[n])] = NewVersion(MaxVersionNumber(versions[n]) + 1, new, n)]

(* a trigger that keeps a history of two versions: it drops the oldest one when it inserts a third *)
create_note_version_DropsOldest(n, new) ==
  LET all == Append(versions[n], NewVersion(MaxVersionNumber(versions[n]) + 1, new, n))
  IN IF Len(all) > 2 THEN Tail(all) ELSE all

(* a trigger that numbers the new version like the latest one *)
create_note_version_SameNumber(n, new) ==
  Append(versions[n], NewVersion(MaxVersionNumber(versions[n]), new, n))

(* BEFORE UPDATE trigger function create_note_version *)
create_note_version(n, new) ==
  Append(versions[n], NewVersion(MaxVersionNumber(versions[n]) + 1, new, n))

(* the row an UPDATE of noteRepo.Update writes: nil fields are left out of SET *)
UpdatedRow(old, title, body, src) ==
  [old EXCEPT !.title = IF title = Nil THEN @ ELSE title,
              !.body = IF body = Nil THEN @ ELSE body,
              !.src = IF src = None THEN @ ELSE src]

(* a WHERE clause without the user_id condition *)
Owned_ByAnyone(u, n) == n \in NoteIds

(* WHERE id = $1 AND user_id = $2 *)
Owned(u, n) == n \in NoteIds /\ notes[n].owner = u

(* a delete whose cascade misses the edges that point at the deleted notes *)
DeleteNotes_KeepsInbound(ds) ==
  /\ notes' = Without(notes, ds)
  /\ versions' = Without(versions, ds)
  /\ noteTags' = {nt \in noteTags : nt[1] \notin ds}
  /\ links' = {l \in links : l[1] \notin ds}

(* rows removed with notes ds: ON DELETE CASCADE of note_tags, note_links, note_versions *)
DeleteNotes(ds) ==
  /\ notes' = Without(notes, ds)
  /\ versions' = Without(versions, ds)
  /\ noteTags' = {nt \in noteTags : nt[1] \notin ds}
  /\ links' = {l \in links : l[1] \notin ds /\ l[2] \notin ds}

NormalizeTag(name) == ToLower(TrimSpace(name))

TagByName(u, name) == {t \in TagIds : tags[t].owner = u /\ tags[t].name = name}

(* a lookup that compares the titles as they are written *)
NotesByTitle_CaseSensitive(u, title) ==
  {m \in NoteIds : notes[m].owner = u /\ notes[m].title = title}

(* WHERE user_id = $1 AND LOWER(title) = LOWER($2) *)
NotesByTitle(u, title) ==
  {m \in NoteIds : notes[m].owner = u /\ ToLower(notes[m].title) = ToLower(title)}

SeqToSet(s) == {s[k] : k \in 1..Len(s)}

RECURSIVE SetToSeq(_)
SetToSeq(S) ==
  IF S = {} THEN <<>>
  ELSE LET x == CHOOSE y \in S : TRUE IN <<x>> \o SetToSeq(S \ {x})

(***************************************************************************)
(* Goroutines                                                              *)
(***************************************************************************)
Spawn(ts) == tasks (+) ts

IndexTask(note) ==
  [NoTask EXCEPT !.kind = "index", !.n = note.id, !.u = note.owner,
                 !.title = note.title, !.body = note.body]

DeleteTask(ids) == [NoTask EXCEPT !.kind = "delete", !.ids = ids]

LinkTask(u, n, body) ==
  [NoTask EXCEPT !.kind = "links", !.pc = "linkDel", !.u = u, !.n = n, !.body = body]

(* the *Note a repository method scans out of its RETURNING clause *)
Scan(n, row) == [id |-> n, owner |-> row.owner, title |-> row.title, body |-> row.body,
                 src |-> row.src, tags |-> NoTags]

Return(p, res) == [Idle EXCEPT !.op = proc[p].op, !.u = proc[p].u, !.n = proc[p].n, !.res = res]

Set(p, r) == proc' = [proc EXCEPT ![p] = r]

(***************************************************************************)
(* Tag resolution: Service.ensureTagsExist and the tag repository          *)
(***************************************************************************)
(* where a handler goes once its tag set is settled *)
AfterTags(r) ==
  IF r.op = "create" \/ (r.op = "update" /\ r.body # Nil) THEN "linkDel" ELSE "finish"

(* the loop of ensureTagsExist, after the tag of name i has been resolved to id *)
TagResolved(r, id) ==
  [r EXCEPT !.tagIDs = Append(@, id), !.name = Nil,
            !.i = IF r.i = Len(r.tags) THEN 0 ELSE r.i + 1,
            !.pc = IF r.i = Len(r.tags) THEN "setTags" ELSE "tagFind"]

(* FindOrCreateByName: normalisation and the SELECT *)
FindOrCreateByName_Find(p) ==
  /\ proc[p].pc = "tagFind"
  /\ LET r == proc[p]
         normalizedName == NormalizeTag(r.tags[r.i])
         found == TagByName(r.u, normalizedName)
     IN IF normalizedName = <<>> THEN Set(p, Return(p, "failed to process tags"))
        ELSE IF found # {} THEN Set(p, TagResolved(r, CHOOSE t \in found : TRUE))
        ELSE Set(p, [r EXCEPT !.pc = "tagInsert", !.name = normalizedName])
  /\ UNCHANGED <<rel, vec, tasks>>

(* FindOrCreateByName: the INSERT, under UNIQUE (user_id, name) *)
FindOrCreateByName_Insert(p, id) ==
  /\ proc[p].pc = "tagInsert"
  /\ LET r == proc[p] IN
     IF TagByName(r.u, r.name) # {}
     THEN /\ Set(p, Return(p, "failed to process tags"))
          /\ UNCHANGED <<tags, nextTag>>
     ELSE /\ id = nextTag + 1
          /\ nextTag' = id
          /\ tags' = With(tags, id, [owner |-> r.u, name |-> r.name])
          /\ Set(p, TagResolved(r, id))
  /\ UNCHANGED <<notes, nextId, noteTags, links, versions, vec, tasks>>

(* the transaction of SetNoteTags commits: PRIMARY KEY (note_id, tag_id) and both foreign keys hold *)
SetNoteTagsCommits(n, tagIDs) ==
  /\ Len(tagIDs) > 0 => n \in NoteIds
  /\ \A k \in 1..Len(tagIDs) : tagIDs[k] \in TagIds
  /\ \A j, k \in 1..Len(tagIDs) : j # k => tagIDs[j] # tagIDs[k]

(* a SetNoteTags without its DELETE: the rows of the note stay and the new ones are added *)
SetNoteTags_KeepsRows(n, tagIDs) ==
  IF SetNoteTagsCommits(n, tagIDs)
  THEN noteTags \cup {<<n, tagIDs[k]>> : k \in 1..Len(tagIDs)}
  ELSE noteTags

(* note_tags after SetNoteTags: DELETE all rows of the note, INSERT one per id, or roll back *)
SetNoteTags(n, tagIDs) ==
  IF SetNoteTagsCommits(n, tagIDs)
  THEN {nt \in noteTags : nt[1] # n} \cup {<<n, tagIDs[k]>> : k \in 1..Len(tagIDs)}
  ELSE noteTags

(* CreateNote / UpdateNote: tagRepo.SetNoteTags, then note.Tags = req.Tags *)
AssignTags(p) ==
  /\ proc[p].pc = "setTags"
  /\ LET r == proc[p] IN
     /\ noteTags' = SetNoteTags(r.n, r.tagIDs)
     /\ IF SetNoteTagsCommits(r.n, r.tagIDs)
        THEN Set(p, [r EXCEPT !.pc = AfterTags(r), !.ret.tags = r.tags, !.tagIDs = <<>>])
        ELSE Set(p, Return(p, IF r.op = "create" THEN "failed to assign tags"
                                                 ELSE "failed to update tags"))
  /\ UNCHANGED <<notes, nextId, tags, nextTag, links, versions, vec, tasks>>

(* noteRepo.GetNoteTags, the second statement of GetNote and of an UpdateNote without tags *)
ReadNoteTags(p) ==
  /\ proc[p].pc = "getTags"
  /\ LET r == proc[p] IN
     IF r.op = "get" THEN Set(p, Return(p, "ok"))
     ELSE Set(p, [r EXCEPT !.pc = AfterTags(r), !.ret.tags = SetToSeq(GetNoteTags(r.n))])
  /\ UNCHANGED <<rel, vec, tasks>>

(***************************************************************************)
(* Link graph: Service.processNoteLinks and the link repository.  c is     *)
(* whoever runs it, a request worker or the goroutine of RestoreVersion    *)
(***************************************************************************)
(* linkRepo.DeleteLinksForNote *)
DeleteLinksForNote(n) == {l \in links : l[1] # n}

(* after the DELETE: ExtractNoteLinks, and return when it finds nothing *)
LinksDeleted(c, done) ==
  LET linkedTitles == ExtractNoteLinks(c.body) IN
  IF linkedTitles = <<>> THEN [c EXCEPT !.pc = done]
  ELSE [c EXCEPT !.pc = "linkFind", !.titles = linkedTitles, !.i = 1]

(* next round of the loop over linkedTitles *)
NextTitle(c, done) ==
  IF c.i = Len(c.titles) THEN [c EXCEPT !.pc = done, !.titles = <<>>, !.i = 0, !.tgt = 0]
  ELSE [c EXCEPT !.pc = "linkFind", !.i = c.i + 1, !.tgt = 0]

(* linkRepo.FindNoteByTitle: LIMIT 1 without ORDER BY returns any matching row *)
FindNoteByTitle(c, done) ==
  LET hits == NotesByTitle(c.u, c.titles[c.i]) IN
  IF hits = {} THEN {NextTitle(c, done)}
  ELSE {[c EXCEPT !.pc = "linkCreate", !.tgt = m] : m \in hits}

(* linkRepo.CreateLink succeeds: both foreign keys hold; ON CONFLICT DO NOTHING *)
CreateLinkOK(c) == c.n \in NoteIds /\ c.tgt \in NoteIds

CreateLink(c) == IF CreateLinkOK(c) THEN links \cup {<<c.n, c.tgt>>} ELSE links

(* after CreateLink: on an error processNoteLinks returns it, leaving the other titles *)
LinkCreated(c, done) ==
  IF CreateLinkOK(c) THEN NextTitle(c, done)
  ELSE [c EXCEPT !.pc = done, !.titles = <<>>, !.i = 0, !.tgt = 0]

ProcLinkDelete(p) ==
  /\ proc[p].pc = "linkDel"
  /\ links' = DeleteLinksForNote(proc[p].n)
  /\ Set(p, LinksDeleted(proc[p], "finish"))
  /\ UNCHANGED <<notes, nextId, tags, nextTag, noteTags, versions, vec, tasks>>

ProcLinkFind(p) ==
  /\ proc[p].pc = "linkFind"
  /\ \E c \in FindNoteByTitle(proc[p], "finish") : Set(p, c)
  /\ UNCHANGED <<rel, vec, tasks>>

ProcLinkCreate(p) ==
  /\ proc[p].pc = "linkCreate"
  /\ links' = CreateLink(proc[p])
  /\ Set(p, LinkCreated(proc[p], "finish"))
  /\ UNCHANGED <<notes, nextId, tags, nextTag, noteTags, versions, vec, tasks>>

(* CreateNote / UpdateNote: start the indexing goroutine and return the note *)
Finish(p) ==
  /\ proc[p].pc = "finish"
  /\ tasks' = Spawn(SetToBag({IndexTask(proc[p].ret)}))
  /\ Set(p, Return(p, "ok"))
  /\ UNCHANGED <<rel, vec>>

(***************************************************************************)
(* Note handlers                                                           *)
(***************************************************************************)
Request(op, u, n) == [Idle EXCEPT !.op = op, !.u = u, !.n = n]

(* noteRepo.Create: the INSERT and its AFTER INSERT trigger *)
NoteRow(u, title, body, src) ==
  [owner |-> u, title |-> title, body |-> body, src |-> src, pub |-> FALSE, slug |-> Nil,
   shared |-> FALSE, views |-> 0]

(* Service.CreateNote up to and including noteRepo.Create *)
CreateNote(p, id, u, title, body, src, tagNames) ==
  /\ proc[p].pc = "idle"
  /\ IF title = <<>> THEN
       /\ Set(p, [Request("create", u, 0) EXCEPT !.res = "title is required"])
       /\ UNCHANGED <<notes, nextId, versions>>
     ELSE IF body = <<>> THEN
       /\ Set(p, [Request("create", u, 0) EXCEPT !.res = "content is required"])
       /\ UNCHANGED <<notes, nextId, versions>>
     ELSE
       /\ id = nextId + 1
       /\ LET row == NoteRow(u, title, body, src)
              reqTags == uniqueStrings(tagNames)
          IN /\ nextId' = id
             /\ notes' = With(notes, id, row)
             /\ versions' = With(versions, id, create_note_version_on_insert(id, row))
             /\ Set(p, [Request("create", u, id) EXCEPT
                          !.body = body, !.tags = reqTags, !.i = IF reqTags = <<>> THEN 0 ELSE 1,
                          !.ret = Scan(id, row),
                          !.pc = IF Len(reqTags) > 0 THEN "tagFind" ELSE "linkDel"])
  /\ UNCHANGED <<tags, nextTag, noteTags, links, vec, tasks>>

(* noteRepo.Update on a row the caller owns: the UPDATE and its BEFORE UPDATE trigger *)
UpdateRow(n, title, body, src) ==
  LET new == UpdatedRow(notes[n], title, body, src) IN
  /\ notes' = [notes EXCEPT ![n] = new]
  /\ IF ContentDistinct(notes[n], new)
     THEN /\ Len(versions[n]) < MaxVersions
          /\ versions' = [versions EXCEPT ![n] = create_note_version(n, new)]
     ELSE versions' = versions

(* Service.UpdateNote up to and including noteRepo.Update *)
UpdateNote(p, u, n, title, body, src, tagNames) ==
  /\ proc[p].pc = "idle"
  /\ IF ~Owned(u, n) THEN
       /\ Set(p, [Request("update", u, n) EXCEPT !.res = "note not found"])
       /\ UNCHANGED <<notes, versions>>
     ELSE
       /\ UpdateRow(n, title, body, src)
       /\ Set(p, [Request("update", u, n) EXCEPT
                    !.body = body, !.tags = tagNames,
                    !.ret = Scan(n, UpdatedRow(notes[n], title, body, src)),
                    !.i = IF tagNames = NoTags \/ tagNames = <<>> THEN 0 ELSE 1,
                    !.pc = IF tagNames = NoTags THEN "getTags"
                           ELSE IF tagNames = <<>> THEN "setTags" ELSE "tagFind"])
  /\ UNCHANGED <<nextId, tags, nextTag, noteTags, links, vec, tasks>>

(* Service.DeleteNote: noteRepo.Delete, then the goroutine that deletes the point *)
DeleteNote(p, u, n) ==
  /\ proc[p].pc = "idle"
  /\ IF ~Owned(u, n) THEN
       /\ Set(p, [Request("delete", u, n) EXCEPT !.res = "note not found"])
       /\ UNCHANGED <<notes, versions, noteTags, links, tasks>>
     ELSE
       /\ DeleteNotes({n})
       /\ tasks' = Spawn(SetToBag({DeleteTask({n})}))
       /\ Set(p, [Request("delete", u, n) EXCEPT !.res = "ok"])
  /\ UNCHANGED <<nextId, tags, nextTag, vec>>

(* Service.GetNote: noteRepo.FindByID *)
GetNote(p, u, n) ==
  /\ proc[p].pc = "idle"
  /\ IF ~Owned(u, n) THEN Set(p, [Request("get", u, n) EXCEPT !.res = "note not found"])
     ELSE Set(p, [Request("get", u, n) EXCEPT !.pc = "getTags"])
  /\ UNCHANGED <<rel, vec, tasks>>

(* Service.ListVersions: noteRepo.FindByID *)
ListVersions(p, u, n) ==
  /\ proc[p].pc = "idle"
  /\ IF ~Owned(u, n)
     THEN Set(p, [Request("versions", u, n) EXCEPT !.res = "note not found or access denied"])
     ELSE Set(p, [Request("versions", u, n) EXCEPT !.pc = "listVersions"])
  /\ UNCHANGED <<rel, vec, tasks>>

(* Service.ListVersions: versionRepo.ListVersions *)
ListVersions_Query(p) ==
  /\ proc[p].pc = "listVersions"
  /\ Set(p, Return(p, "ok"))
  /\ UNCHANGED <<rel, vec, tasks>>

(***************************************************************************)
(* Version comparison: GenerateContentDiff and Service.GetVersionDiff      *)
(***************************************************************************)
Newline == "\n"

(* strings.Split(s, "\n"): the pieces between the newlines; one piece, s itself, without any *)
RECURSIVE SplitLines(_)
SplitLines(s) ==
  LET at == {k \in 1..Len(s) : s[k] = Newline} IN
  IF at = {} THEN <<s>>
  ELSE LET k == CHOOSE j \in at : \A m \in at : j <= m
       IN <<SubSeq(s, 1, k - 1)>> \o SplitLines(SubSeq(s, k + 1, Len(s)))

DiffLine(type, content, lineNum) == [type |-> type, content |-> content, lineNum |-> lineNum]

(* the body of the loop of GenerateContentDiff at index i (from 1), and the rounds after it *)
RECURSIVE DiffFrom(_, _, _, _)
DiffFrom(oldLines, newLines, i, lineNum) ==
  LET maxLen == IF Len(newLines) > Len(oldLines) THEN Len(newLines) ELSE Len(oldLines)
      oldLine == IF i <= Len(oldLines) THEN oldLines[i] ELSE <<>>
      newLine == IF i <= Len(newLines) THEN newLines[i] ELSE <<>>
      removed == IF oldLine # <<>> /\ i <= Len(oldLines)
                 THEN <<DiffLine("removed", oldLine, lineNum)>> ELSE <<>>
      added == IF newLine # <<>> /\ i <= Len(newLines)
               THEN <<DiffLine("added", newLine, lineNum)>> ELSE <<>>
  IN IF i > maxLen THEN <<>>
     ELSE IF oldLine = newLine
     THEN <<DiffLine("unchanged", oldLine, lineNum)>> \o DiffFrom(oldLines, newLines, i + 1, lineNum + 1)
     ELSE removed \o added
          \o DiffFrom(oldLines, newLines, i + 1, IF added # <<>> THEN lineNum + 1 ELSE lineNum)

GenerateContentDiff(oldContent, newContent) ==
  DiffFrom(SplitLines(oldContent), SplitLines(newContent), 1, 1)

(* WHERE note_id = $1 AND version_number = $2 *)
VersionsByNumber(n, num) ==
  IF n \in DOMAIN versions
  THEN {versions[n][k] : k \in {j \in 1..Len(versions[n]) : versions[n][j].num = num}}
  ELSE {}

(* Service.GetVersionDiff: noteRepo.FindByID *)
GetVersionDiff(p, u, n, oldVersionNum, newVersionNum) ==
  /\ proc[p].pc = "idle"
  /\ IF ~Owned(u, n)
     THEN Set(p, [Request("diff", u, n) EXCEPT !.res = "note not found or access denied"])
     ELSE Set(p, [Request("diff", u, n) EXCEPT !.vid = <<oldVersionNum, newVersionNum>>,
                                              !.pc = "diffOld"])
  /\ UNCHANGED <<rel, vec, tasks>>

(* Service.GetVersionDiff: versionRepo.GetVersionByNumber for the old version *)
GetVersionDiff_Old(p) ==
  /\ proc[p].pc = "diffOld"
  /\ LET r == proc[p]
         found == VersionsByNumber(r.n, r.vid[1])
     IN IF found = {} THEN Set(p, Return(p, "old version not found"))
        ELSE \E oldVersion \in found : Set(p, [r EXCEPT !.pc = "diffNew", !.snap = oldVersion])
  /\ UNCHANGED <<rel, vec, tasks>>

(* Service.GetVersionDiff: GetVersionByNumber for the new version, then the VersionDiff *)
GetVersionDiff_New(p) ==
  /\ proc[p].pc = "diffNew"
  /\ LET r == proc[p]
         found == VersionsByNumber(r.n, r.vid[2])
     IN IF found = {} THEN Set(p, Return(p, "new version not found"))
        ELSE \E newVersion \in found :
               Set(p, [Return(p, "ok") EXCEPT
                         !.vid = r.vid,
                         !.ret = [oldVersion |-> r.snap, newVersion |-> newVersion,
                                  titleChanged |-> r.snap.title # newVersion.title,
                                  contentDiff |-> GenerateContentDiff(r.snap.body, newVersion.body)]])
  /\ UNCHANGED <<rel, vec, tasks>>

(***************************************************************************)
(* Public sharing                                                          *)
(***************************************************************************)
(* Service.ShareNote: noteRepo.FindByID and generateSlug *)
ShareNote(p, u, n, isPublic) ==
  /\ proc[p].pc = "idle"
  /\ IF ~Owned(u, n) THEN Set(p, [Request("share", u, n) EXCEPT !.res = "note not found"])
     ELSE Set(p, [Request("share", u, n) EXCEPT
                    !.pub = isPublic,
                    !.slug = IF isPublic THEN generateSlug(notes[n].title, n) ELSE Nil,
                    !.pc = IF isPublic THEN "slugCheck" ELSE "toggle"])
  /\ UNCHANGED <<rel, vec, tasks>>

(* noteRepo.IsSlugAvailable: the count of notes WHERE public_slug = $1 is zero *)
IsSlugAvailable(slug) == {m \in NoteIds : notes[m].slug = slug} = {}

(* Service.ShareNote: the availability check and the suffix *)
ShareNote_CheckSlug(p) ==
  /\ proc[p].pc = "slugCheck"
  /\ LET r == proc[p] IN
     Set(p, [r EXCEPT !.pc = "toggle",
                      !.slug = IF IsSlugAvailable(r.slug) THEN r.slug
                               ELSE r.slug \o <<"-">> \o IdPrefix(r.n)])
  /\ UNCHANGED <<rel, vec, tasks>>

(* a public_slug column without its UNIQUE constraint *)
SlugUnique_NotEnforced(n, slug) == TRUE

(* public_slug VARCHAR(255) UNIQUE *)
SlugUnique(n, slug) == slug = Nil \/ \A m \in NoteIds \ {n} : notes[m].slug # slug

(* a TogglePublic that leaves the slug in place when the note goes private *)
TogglePublic_KeepsSlug(p) ==
  /\ proc[p].pc = "toggle"
  /\ LET r == proc[p] IN
     IF ~Owned(r.u, r.n) THEN
       /\ Set(p, Return(p, "note not found"))
       /\ notes' = notes
     ELSE IF ~SlugUnique(r.n, r.slug) THEN
       /\ Set(p, Return(p, "failed to toggle public status"))
       /\ notes' = notes
     ELSE
       /\ notes' = [notes EXCEPT ![r.n].pub = r.pub, ![r.n].shared = r.pub,
                                 ![r.n].slug = IF r.pub THEN r.slug ELSE @]
       /\ Set(p, [Return(p, "ok") EXCEPT !.pub = r.pub, !.slug = r.slug])
  /\ UNCHANGED <<nextId, tags, nextTag, noteTags, links, versions, vec, tasks>>

(* Service.ShareNote: noteRepo.TogglePublic *)
TogglePublic(p) ==
  /\ proc[p].pc = "toggle"
  /\ LET r == proc[p] IN
     IF ~Owned(r.u, r.n) THEN
       /\ Set(p, Return(p, "note not found"))
       /\ notes' = notes
     ELSE IF ~SlugUnique(r.n, r.slug) THEN
       /\ Set(p, Return(p, "failed to toggle public status"))
       /\ notes' = notes
     ELSE
       /\ notes' = [notes EXCEPT ![r.n].pub = r.pub, ![r.n].slug = r.slug, ![r.n].shared = r.pub]
       /\ Set(p, [Return(p, "ok") EXCEPT !.pub = r.pub, !.slug = r.slug])
  /\ UNCHANGED <<nextId, tags, nextTag, noteTags, links, versions, vec, tasks>>

(* the goroutine of GetPublicNote that counts the view *)
ViewTask(n) == [NoTask EXCEPT !.kind = "view", !.n = n]

(* noteRepo.FindByPublicSlug: WHERE public_slug = $1 AND is_public = TRUE *)
FindByPublicSlug(slug) == {m \in NoteIds : notes[m].slug = slug /\ notes[m].pub}

(* Service.GetPublicNote: noteRepo.FindByPublicSlug *)
GetPublicNote(p, slug) ==
  /\ proc[p].pc = "idle"
  /\ LET found == FindByPublicSlug(slug) IN
     IF found = {} THEN Set(p, [Request("public", None, 0) EXCEPT !.res = "public note not found"])
     ELSE \E m \in found :
            /\ notes[m].views + Cardinality({t \in BagToSet(tasks) : t.kind = "view"}) < MaxViews
            /\ Set(p, [Request("public", None, m) EXCEPT !.pc = "publicTags"])
  /\ UNCHANGED <<rel, vec, tasks>>

(* Service.GetPublicNote: noteRepo.GetNoteTags, the view-count goroutine and the response *)
GetPublicNote_Return(p) ==
  /\ proc[p].pc = "publicTags"
  /\ tasks' = Spawn(SetToBag({ViewTask(proc[p].n)}))
  /\ Set(p, Return(p, "ok"))
  /\ UNCHANGED <<rel, vec>>

(***************************************************************************)
(* Version restore                                                         *)
(***************************************************************************)
(* a version id names a row of note_versions: the k-th row written for note m *)
VersionExists(vid) == vid[1] \in DOMAIN versions /\ vid[2] \in 1..Len(versions[vid[1]])

(* Service.RestoreVersion: noteRepo.FindByID *)
RestoreVersion(p, u, n, vid) ==
  /\ proc[p].pc = "idle"
  /\ IF ~Owned(u, n)
     THEN Set(p, [Request("restore", u, n) EXCEPT !.res = "note not found or access denied"])
     ELSE Set(p, [Request("restore", u, n) EXCEPT !.vid = vid, !.pc = "getVersion"])
  /\ UNCHANGED <<rel, vec, tasks>>

(* Service.RestoreVersion: versionRepo.GetVersion and the NoteID check *)
RestoreVersion_GetVersion(p) ==
  /\ proc[p].pc = "getVersion"
  /\ LET r == proc[p] IN
     IF ~VersionExists(r.vid) THEN Set(p, Return(p, "version not found"))
     ELSE IF r.vid[1] # r.n THEN Set(p, Return(p, "version does not belong to this note"))
     ELSE Set(p, [r EXCEPT !.pc = "restoreUpdate", !.snap = versions[r.vid[1]][r.vid[2]],
                           !.vid = <<0, 0>>])
  /\ UNCHANGED <<rel, vec, tasks>>

(* Service.RestoreVersion: noteRepo.Update with the snapshot's title, body and source URL *)
RestoreVersion_Update(p) ==
  /\ proc[p].pc = "restoreUpdate"
  /\ LET r == proc[p] IN
     IF ~Owned(r.u, r.n) THEN
       /\ Set(p, Return(p, "failed to restore version"))
       /\ UNCHANGED <<notes, versions>>
     ELSE
       /\ UpdateRow(r.n, r.snap.title, r.snap.body, r.snap.src)
       /\ Set(p, [r EXCEPT !.body = r.snap.body,
                           !.ret = Scan(r.n, UpdatedRow(notes[r.n], r.snap.title, r.snap.body, r.snap.src)),
                           !.pc = IF r.snap.tags # {} THEN "restoreFindTags" ELSE "restoreSetTags"])
  /\ UNCHANGED <<nextId, tags, nextTag, noteTags, links, vec, tasks>>

(* tagRepo.FindByNames: WHERE user_id = $1 AND name = ANY(normalized names) *)
FindByNames(u, names) ==
  {t \in TagIds : tags[t].owner = u /\ tags[t].name \in {NormalizeTag(nm) : nm \in names}}

(* Service.RestoreVersion: tagRepo.FindByNames for a snapshot that has tags *)
RestoreVersion_FindTags(p) ==
  /\ proc[p].pc = "restoreFindTags"
  /\ LET r == proc[p]
         tagObjects == FindByNames(r.u, r.snap.tags)
     IN IF tagObjects # {}
        THEN Set(p, [r EXCEPT !.pc = "restoreSetTags", !.tagIDs = SetToSeq(tagObjects)])
        ELSE Set(p, [r EXCEPT !.pc = "restoreSpawn"])
  /\ UNCHANGED <<rel, vec, tasks>>

(* Service.RestoreVersion: tagRepo.SetNoteTags, its error dropped *)
RestoreVersion_SetTags(p) ==
  /\ proc[p].pc = "restoreSetTags"
  /\ noteTags' = SetNoteTags(proc[p].n, proc[p].tagIDs)
  /\ Set(p, [proc[p] EXCEPT !.pc = "restoreSpawn", !.tagIDs = <<>>])
  /\ UNCHANGED <<notes, nextId, tags, nextTag, links, versions, vec, tasks>>

(* Service.RestoreVersion: the two goroutines, then the reload by noteRepo.FindByID *)
RestoreVersion_Spawn(p) ==
  /\ proc[p].pc = "restoreSpawn"
  /\ LET r == proc[p] IN
     /\ tasks' = Spawn(SetToBag({IndexTask(r.ret), LinkTask(r.u, r.n, r.snap.body)}))
     /\ IF Owned(r.u, r.n) THEN Set(p, [r EXCEPT !.pc = "restoreReturn", !.snap = None])
        ELSE Set(p, Return(p, "ok"))
  /\ UNCHANGED <<rel, vec>>

(* Service.RestoreVersion: noteRepo.GetNoteTags and the return of the fresh note *)
RestoreVersion_Return(p) ==
  /\ proc[p].pc = "restoreReturn"
  /\ Set(p, Return(p, "ok"))
  /\ UNCHANGED <<rel, vec, tasks>>

(***************************************************************************)
(* Tag deletion                                                            *)
(***************************************************************************)
(* Service.DeleteTag: tagRepo.FindByID *)
DeleteTag(p, u, tagID) ==
  /\ proc[p].pc = "idle"
  /\ IF tagID \in TagIds /\ tags[tagID].owner = u
     THEN Set(p, [Request("deleteTag", u, 0) EXCEPT !.tgt = tagID, !.pc = "countNotes"])
     ELSE Set(p, [Request("deleteTag", u, 0) EXCEPT !.res = "tag not found"])
  /\ UNCHANGED <<rel, vec, tasks>>

(* a SELECT without the join on note_tags: every note of the user *)
NotesWithTag_AllNotes(u, tagID) == {m \in NoteIds : notes[m].owner = u}

(* SELECT DISTINCT n.id FROM notes n JOIN note_tags nt ... WHERE n.user_id = $1 AND nt.tag_id = $2 *)
NotesWithTag(u, tagID) == {m \in NoteIds : notes[m].owner = u /\ <<m, tagID>> \in noteTags}

(* Service.DeleteTag: tagRepo.GetNotesCountByTag *)
DeleteTag_Count(p) ==
  /\ proc[p].pc = "countNotes"
  /\ Set(p, [proc[p] EXCEPT !.pc = "selectNotes",
                            !.count = Cardinality(NotesWithTag(proc[p].u, proc[p].tgt))])
  /\ UNCHANGED <<rel, vec, tasks>>

(* tagRepo.Delete: the SELECT of the notes that have the tag, first statement of the transaction *)
DeleteTag_Select(p) ==
  /\ proc[p].pc = "selectNotes"
  /\ Set(p, [proc[p] EXCEPT !.pc = "deleteTag", !.ids = NotesWithTag(proc[p].u, proc[p].tgt)])
  /\ UNCHANGED <<rel, vec, tasks>>

(* tagRepo.Delete: DELETE FROM notes, DELETE FROM tags and the commit; then the purge goroutine *)
DeleteTag_Commit(p) ==
  /\ proc[p].pc = "deleteTag"
  /\ LET r == proc[p]
         noteIDs == {m \in r.ids : Owned(r.u, m)}
     IN IF r.tgt \in TagIds /\ tags[r.tgt].owner = r.u THEN
          /\ notes' = Without(notes, noteIDs)
          /\ versions' = Without(versions, noteIDs)
          /\ links' = {l \in links : l[1] \notin noteIDs /\ l[2] \notin noteIDs}
          /\ noteTags' = {nt \in noteTags : nt[1] \notin noteIDs /\ nt[2] # r.tgt}
          /\ tags' = Without(tags, {r.tgt})
          /\ tasks' = IF r.ids # {} THEN Spawn(SetToBag({DeleteTask(r.ids)})) ELSE tasks
          /\ Set(p, [Return(p, "ok") EXCEPT !.count = r.count, !.tgt = r.tgt])
        ELSE
          /\ Set(p, Return(p, "failed to delete tag"))
          /\ UNCHANGED <<notes, versions, links, noteTags, tags, tasks>>
  /\ UNCHANGED <<nextId, nextTag, vec>>

(***************************************************************************)
(* Listing                                                                 *)
(***************************************************************************)
(* noteRepo.List: WHERE n.user_id = $1, and n.id IN (SELECT note_id FROM note_tags
   WHERE tag_id = ANY(tagIDs)) when tagIDs is not empty *)
ListedNotes(u, tagIDs) ==
  {m \in NoteIds :
     /\ notes[m].owner = u
     /\ Len(tagIDs) > 0 => \E k \in 1..Len(tagIDs) : <<m, tagIDs[k]>> \in noteTags}

(* noteRepo.List: the count query *)
List_Count(r) ==
  [r EXCEPT !.pc = "listSelect", !.count = Cardinality(ListedNotes(r.u, r.tagIDs))]

(* Service.ListNotes (first page, no search text): tagRepo.FindByNames when the
   request names tags, otherwise straight to the count query of noteRepo.List *)
ListNotes(p, u, tagNames) ==
  /\ proc[p].pc = "idle"
  /\ IF Len(tagNames) > 0
     THEN Set(p, [Request("list", u, 0) EXCEPT
                    !.tags = tagNames, !.pc = "listCount",
                    !.tagIDs = SetToSeq(FindByNames(u, SeqToSet(tagNames)))])
     ELSE Set(p, List_Count([Request("list", u, 0) EXCEPT !.tags = tagNames]))
  /\ UNCHANGED <<rel, vec, tasks>>

(* noteRepo.List: the count query, after FindByNames *)
ListNotes_Count(p) ==
  /\ proc[p].pc = "listCount"
  /\ Set(p, List_Count(proc[p]))
  /\ UNCHANGED <<rel, vec, tasks>>

(* noteRepo.List: the SELECT of the page *)
ListNotes_Select(p) ==
  /\ proc[p].pc = "listSelect"
  /\ Set(p, [proc[p] EXCEPT !.pc = "listTags", !.ids = ListedNotes(proc[p].u, proc[p].tagIDs)])
  /\ UNCHANGED <<rel, vec, tasks>>

(* Service.ListNotes: noteRepo.GetNoteTags for each listed note, and the response *)
ListNotes_Return(p) ==
  /\ proc[p].pc = "listTags"
  /\ Set(p, [Return(p, "ok") EXCEPT !.tags = proc[p].tags, !.ids = proc[p].ids,
                                     !.count = proc[p].count])
  /\ UNCHANGED <<rel, vec, tasks>>

(***************************************************************************)
(* Goroutine steps                                                         *)
(***************************************************************************)
Running(kind) == {t \in BagToSet(tasks) : t.kind = kind}
Ended(t) == tasks (-) SetToBag({t})
Moved(t, t2) == (tasks (-) SetToBag({t})) (+) SetToBag({t2})

(* an indexNote that looks the note up again and drops the upsert when it is gone *)
IndexNote_Rechecks(t) ==
  /\ t \in Running("index")
  /\ vec' = IF t.n \in NoteIds
            THEN With(vec, t.n, [owner |-> t.u, title |-> t.title, body |-> t.body])
            ELSE vec
  /\ tasks' = Ended(t)
  /\ UNCHANGED <<rel, proc>>

(* Service.indexNote: the embedding is generated and vectorStore.UpsertPoint stores it *)
IndexNote(t) ==
  /\ t \in Running("index")
  /\ vec' = With(vec, t.n, [owner |-> t.u, title |-> t.title, body |-> t.body])
  /\ tasks' = Ended(t)
  /\ UNCHANGED <<rel, proc>>

(* an indexing failure that takes the note back out of the store *)
IndexNoteFails_RollsBack(t) ==
  /\ t \in Running("index")
  /\ tasks' = Ended(t)
  /\ DeleteNotes({t.n})
  /\ UNCHANGED <<nextId, tags, nextTag, vec, proc>>

(* Service.indexNote: GenerateForNote or UpsertPoint fails; the caller only logs it *)
IndexNoteFails(t) ==
  /\ t \in Running("index")
  /\ tasks' = Ended(t)
  /\ UNCHANGED <<rel, vec, proc>>

(* what is left of a purge goroutine once it has handled id *)
Purged(t, id) ==
  IF t.ids = {id} THEN Ended(t) ELSE Moved(t, [t EXCEPT !.ids = t.ids \ {id}])

(* vectorStore.DeletePoint in the goroutine of DeleteNote or DeleteTag *)
DeletePoint(t, id) ==
  /\ t \in Running("delete")
  /\ id \in t.ids
  /\ vec' = Without(vec, {id})
  /\ tasks' = Purged(t, id)
  /\ UNCHANGED <<rel, proc>>

(* vectorStore.DeletePoint fails; the goroutine only logs it *)
DeletePointFails(t, id) ==
  /\ t \in Running("delete")
  /\ id \in t.ids
  /\ tasks' = Purged(t, id)
  /\ UNCHANGED <<rel, vec, proc>>

(* noteRepo.IncrementViewCount: UPDATE ... WHERE id = $1 AND is_public = TRUE *)
IncrementViewCount(t) ==
  /\ t \in Running("view")
  /\ notes' = IF t.n \in NoteIds /\ notes[t.n].pub
              THEN [notes EXCEPT ![t.n].views = @ + 1]
              ELSE notes
  /\ tasks' = Ended(t)
  /\ UNCHANGED <<nextId, tags, nextTag, noteTags, links, versions, vec, proc>>

(* the goroutine of RestoreVersion that runs processNoteLinks *)
TaskLinkDelete(t) ==
  /\ t \in Running("links")
  /\ t.pc = "linkDel"
  /\ links' = DeleteLinksForNote(t.n)
  /\ LET t2 == LinksDeleted(t, "end") IN
     tasks' = IF t2.pc = "end" THEN Ended(t) ELSE Moved(t, t2)
  /\ UNCHANGED <<notes, nextId, tags, nextTag, noteTags, versions, vec, proc>>

TaskLinkFind(t) ==
  /\ t \in Running("links")
  /\ t.pc = "linkFind"
  /\ \E t2 \in FindNoteByTitle(t, "end") :
       tasks' = IF t2.pc = "end" THEN Ended(t) ELSE Moved(t, t2)
  /\ UNCHANGED <<rel, vec, proc>>

TaskLinkCreate(t) ==
  /\ t \in Running("links")
  /\ t.pc = "linkCreate"
  /\ links' = CreateLink(t)
  /\ LET t2 == LinkCreated(t, "end") IN
     tasks' = IF t2.pc = "end" THEN Ended(t) ELSE Moved(t, t2)
  /\ UNCHANGED <<notes, nextId, tags, nextTag, noteTags, versions, vec, proc>>

(***************************************************************************)
(* Steps that continue a request, and the goroutines                       *)
(***************************************************************************)
(* the ids uuid.New hands out, to notes and to tags, in the order it does *)
IdSpace == {1, 2}
TagIdSpace == {1, 2}

(* a worker accepts a request *)
Accepts(p) == proc[p].pc = "idle" /\ BagCardinality(tasks) <= MaxPending

(* a worker accepts a request once every goroutine of the earlier requests has ended *)
AcceptsWhenDone(p) == proc[p].pc = "idle" /\ tasks = EmptyBag

(* a worker accepts a request while goroutines of earlier requests are still running *)
AcceptsEarly(p) == proc[p].pc = "idle" /\ BagCardinality(tasks) <= MaxOverlap

TagSteps(p) ==
  \/ FindOrCreateByName_Find(p)
  \/ \E id \in TagIdSpace : FindOrCreateByName_Insert(p, id)
  \/ AssignTags(p)

LinkSteps(p) ==
  \/ ProcLinkDelete(p)
  \/ ProcLinkFind(p)
  \/ ProcLinkCreate(p)

RestoreSteps(p) ==
  \/ RestoreVersion_GetVersion(p)
  \/ RestoreVersion_Update(p)
  \/ RestoreVersion_FindTags(p)
  \/ RestoreVersion_SetTags(p)
  \/ RestoreVersion_Spawn(p)
  \/ RestoreVersion_Return(p)

IndexSteps ==
  \E t \in BagToSet(tasks) : IndexNote(t) \/ IndexNoteFails(t)

PurgeSteps ==
  \E t \in BagToSet(tasks) : \E id \in t.ids : DeletePoint(t, id) \/ DeletePointFails(t, id)

LinkTaskSteps ==
  \E t \in BagToSet(tasks) : TaskLinkDelete(t) \/ TaskLinkFind(t) \/ TaskLinkCreate(t)

(***************************************************************************)
(* Inputs                                                                  *)
(***************************************************************************)
Empty == <<>>
TitleA == <<"a">>
TitleUpperA == <<"A">>
TitleB == <<"b">>
TitleA02 == <<"a", " ", "0", "2">>
SlugA == <<"a">>
SlugA02 == <<"a", "-", "0", "2">>
BodyPlain == <<"x">>
BodyLinkA == <<"[", "[", "a", "]", "]">>
BodyLinkAB == <<"[", "[", "A", "]", "]", "[", "[", "b", "]", "]">>
BodyABC == <<"a", Newline, "b", Newline, "c">>
BodyAXC == <<"a", Newline, "x", Newline, "c">>
BodyABlankC == <<"a", Newline, Newline, "c">>
BodyAC == <<"a", Newline, "c">>
BodyALine == <<"a", Newline>>
BodyA == <<"a">>
TagT == <<"t">>
TagUpperT == <<"T">>
TagBlank == <<" ">>
TagX == <<"x">>
VersionIds == IdSpace \X (1..MaxVersions)

(***************************************************************************)
(* SpecV: one user, one note, one request at a time; create, update and    *)
(* restore                                                                 *)
(***************************************************************************)
(* the UpdateNoteRequests of SpecV: title, content_md, source_url, tags *)
UpdatesV ==
  {<<TitleB, Nil, None, NoTags>>, <<Nil, BodyLinkA, None, NoTags>>,
   <<TitleB, BodyLinkA, None, NoTags>>, <<Nil, Nil, "s1", NoTags>>,
   <<Nil, Nil, None, <<TagT>>>>}

NextV ==
  \/ \E title \in {TitleA, Empty}, body \in {BodyPlain, Empty}, src \in {None, "s1"},
        tl \in {<<>>} :
       Accepts("w1") /\ CreateNote("w1", 1, "u1", title, body, src, tl)
  \/ \E req \in UpdatesV :
       Accepts("w1") /\ UpdateNote("w1", "u1", 1, req[1], req[2], req[3], req[4])
  \/ \E vid \in VersionIds : Accepts("w1") /\ RestoreVersion("w1", "u1", 1, vid)
  \/ TagSteps("w1")
  \/ ReadNoteTags("w1")
  \/ LinkSteps("w1")
  \/ Finish("w1")
  \/ RestoreSteps("w1")
  \/ IndexSteps
  \/ LinkTaskSteps

SpecV == Init /\ [][NextV]_vars

(***************************************************************************)
(* SpecC: one user, one note, two workers serving updates and restores of  *)
(* the note at the same time                                               *)
(***************************************************************************)
UpdatesC == {<<TitleB, Nil, None, NoTags>>, <<TitleA, Nil, None, NoTags>>}

NextC ==
  \/ Accepts("w1") /\ CreateNote("w1", 1, "u1", TitleA, BodyPlain, None, <<>>)
  \/ \E p \in Procs, req \in UpdatesC :
       Accepts(p) /\ UpdateNote(p, "u1", 1, req[1], req[2], req[3], req[4])
  \/ \E p \in Procs, vid \in VersionIds : Accepts(p) /\ RestoreVersion(p, "u1", 1, vid)
  \/ \E p \in Procs : ReadNoteTags(p)
  \/ \E p \in Procs : ProcLinkDelete(p)
  \/ \E p \in Procs : Finish(p)
  \/ \E p \in Procs : RestoreVersion_GetVersion(p)
  \/ \E p \in Procs : RestoreVersion_Update(p)
  \/ \E p \in Procs : RestoreVersion_SetTags(p)
  \/ \E p \in Procs : RestoreVersion_Spawn(p)
  \/ \E p \in Procs : RestoreVersion_Return(p)
  \/ IndexSteps
  \/ \E t \in BagToSet(tasks) : TaskLinkDelete(t)

SpecC == Init /\ [][NextC]_vars

(***************************************************************************)
(* SpecF: one user, one request at a time; create, update and delete with  *)
(* tag lists that resolve and tag lists that do not, and a vector index    *)
(* that may fail                                                           *)
(***************************************************************************)
(* the CreateNoteRequests of SpecF: title, content_md, tags *)
CreatesF ==
  {<<TitleA, BodyPlain, <<>>>>, <<TitleA, BodyPlain, <<TagT>>>>,
   <<TitleA, BodyPlain, <<TagBlank>>>>, <<TitleA, BodyPlain, <<TagUpperT, TagT>>>>,
   <<Empty, BodyPlain, <<>>>>}

(* the UpdateNoteRequests of SpecF: title, content_md, tags *)
UpdatesF ==
  {<<TitleB, Nil, NoTags>>, <<TitleB, Nil, <<TagBlank>>>>, <<Nil, BodyLinkA, <<TagT>>>>,
   <<Nil, BodyLinkA, <<TagT, TagT>>>>}

NextF ==
  \/ \E req \in CreatesF :
       Accepts("w1") /\ CreateNote("w1", 1, "u1", req[1], req[2], None, req[3])
  \/ \E req \in UpdatesF :
       Accepts("w1") /\ UpdateNote("w1", "u1", 1, req[1], req[2], None, req[3])
  \/ Accepts("w1") /\ DeleteNote("w1", "u1", 1)
  \/ TagSteps("w1")
  \/ ReadNoteTags("w1")
  \/ LinkSteps("w1")
  \/ Finish("w1")
  \/ IndexSteps
  \/ PurgeSteps

SpecF == Init /\ [][NextF]_vars

(***************************************************************************)
(* SpecT: two users, two notes, one request at a time; tagged and untagged *)
(* notes, and DeleteTag                                                    *)
(***************************************************************************)
(* the CreateNoteRequests of SpecT: user, title, content_md, tags *)
CreatesT ==
  {<<"u1", TitleA, BodyPlain, <<TagT>>>>, <<"u1", TitleA, BodyLinkA, <<>>>>,
   <<"u1", TitleA, BodyLinkA, <<TagT>>>>, <<"u2", TitleA, BodyPlain, <<TagT>>>>}

NextT ==
  \/ \E req \in CreatesT, id \in IdSpace :
       Accepts("w1") /\ CreateNote("w1", id, req[1], req[2], req[3], None, req[4])
  \/ \E u \in Users, tagID \in TagIdSpace : Accepts("w1") /\ DeleteTag("w1", u, tagID)
  \/ TagSteps("w1")
  \/ LinkSteps("w1")
  \/ Finish("w1")
  \/ DeleteTag_Count("w1")
  \/ DeleteTag_Select("w1")
  \/ DeleteTag_Commit("w1")
  \/ IndexSteps
  \/ PurgeSteps

SpecT == Init /\ [][NextT]_vars

(***************************************************************************)
(* SpecL: two users, two notes, one request at a time; bodies with         *)
(* wikilinks                                                               *)
(***************************************************************************)
(* the CreateNoteRequests of SpecL: user, title, content_md *)
CreatesL ==
  {<<"u1", TitleA, BodyPlain>>, <<"u1", TitleUpperA, BodyLinkAB>>, <<"u2", TitleB, BodyPlain>>}

(* the UpdateNoteRequests of SpecL: note, title, content_md *)
UpdatesL == {<<2, Nil, BodyLinkAB>>, <<2, Nil, BodyPlain>>, <<1, TitleB, Nil>>}

NextL ==
  \/ \E req \in CreatesL, id \in IdSpace :
       Accepts("w1") /\ CreateNote("w1", id, req[1], req[2], req[3], None, <<>>)
  \/ \E req \in UpdatesL :
       Accepts("w1") /\ UpdateNote("w1", "u1", req[1], req[2], req[3], None, NoTags)
  \/ ReadNoteTags("w1")
  \/ LinkSteps("w1")
  \/ Finish("w1")
  \/ IndexSteps

SpecL == Init /\ [][NextL]_vars

(***************************************************************************)
(* SpecA: the note of one user and the requests of both users on it and on *)
(* a note id that was never handed out                                     *)
(***************************************************************************)
NextA ==
  \/ Accepts("w1") /\ CreateNote("w1", 1, "u1", TitleA, BodyPlain, None, <<>>)
  \/ \E u \in Users, n \in IdSpace : Accepts("w1") /\ GetNote("w1", u, n)
  \/ \E u \in Users, n \in IdSpace :
       Accepts("w1") /\ UpdateNote("w1", u, n, TitleB, Nil, None, NoTags)
  \/ \E u \in Users, n \in IdSpace : Accepts("w1") /\ DeleteNote("w1", u, n)
  \/ \E u \in Users, n \in IdSpace : Accepts("w1") /\ ShareNote("w1", u, n, TRUE)
  \/ \E u \in Users, n \in IdSpace : Accepts("w1") /\ ListVersions("w1", u, n)
  \/ \E u \in Users, n \in IdSpace : Accepts("w1") /\ RestoreVersion("w1", u, n, <<1, 1>>)
  \/ ReadNoteTags("w1")
  \/ ProcLinkDelete("w1")
  \/ Finish("w1")
  \/ ListVersions_Query("w1")
  \/ ShareNote_CheckSlug("w1")
  \/ TogglePublic("w1")
  \/ RestoreVersion_GetVersion("w1")
  \/ RestoreVersion_Update("w1")
  \/ RestoreVersion_SetTags("w1")
  \/ RestoreVersion_Spawn("w1")
  \/ RestoreVersion_Return("w1")
  \/ IndexSteps
  \/ PurgeSteps
  \/ \E t \in BagToSet(tasks) : TaskLinkDelete(t)

SpecA == Init /\ [][NextA]_vars

(***************************************************************************)
(* SpecR: one user, one note, one request at a time, accepted while the    *)
(* goroutine of the request before is still running; the embedding         *)
(* provider and the vector index do not fail                               *)
(***************************************************************************)
(* the UpdateNoteRequests of SpecR: title, content_md *)
UpdatesR == {<<TitleB, Nil>>, <<TitleA, Nil>>, <<Nil, BodyLinkA>>}

NextR ==
  \/ AcceptsEarly("w1") /\ CreateNote("w1", 1, "u1", TitleA, BodyPlain, None, <<>>)
  \/ \E req \in UpdatesR :
       AcceptsEarly("w1") /\ UpdateNote("w1", "u1", 1, req[1], req[2], None, NoTags)
  \/ AcceptsEarly("w1") /\ DeleteNote("w1", "u1", 1)
  \/ ReadNoteTags("w1")
  \/ LinkSteps("w1")
  \/ Finish("w1")
  \/ \E t \in BagToSet(tasks) : IndexNote(t)
  \/ \E t \in BagToSet(tasks) : \E id \in t.ids : DeletePoint(t, id)

SpecR == Init /\ [][NextR]_vars

(***************************************************************************)
(* SpecN: one user, two notes, one request at a time; tagged and untagged  *)
(* notes, and ListNotes with and without a tag filter                      *)
(***************************************************************************)
(* the tag filters of SpecN *)
FiltersN == {<<>>, <<TagT>>, <<TagX>>, <<TagUpperT, TagX>>}

NextN ==
  \/ \E tl \in {<<>>, <<TagT>>}, id \in IdSpace :
       Accepts("w1") /\ CreateNote("w1", id, "u1", TitleA, BodyPlain, None, tl)
  \/ \E f \in FiltersN : Accepts("w1") /\ ListNotes("w1", "u1", f)
  \/ TagSteps("w1")
  \/ ProcLinkDelete("w1")
  \/ Finish("w1")
  \/ ListNotes_Count("w1")
  \/ ListNotes_Select("w1")
  \/ ListNotes_Return("w1")
  \/ IndexSteps

SpecN == Init /\ [][NextN]_vars

(***************************************************************************)
(* SpecG: one user, one note, one request at a time; tag replacement, tag  *)
(* deletion and restore of versions that recorded tags                     *)
(***************************************************************************)
(* the UpdateNoteRequests of SpecG: title, tags *)
UpdatesG == {<<Nil, <<TagT>>>>, <<Nil, <<TagX>>>>, <<TitleB, NoTags>>, <<TitleA, NoTags>>}

NextG ==
  \/ Accepts("w1") /\ CreateNote("w1", 1, "u1", TitleA, BodyPlain, None, <<>>)
  \/ \E req \in UpdatesG :
       Accepts("w1") /\ UpdateNote("w1", "u1", 1, req[1], Nil, None, req[2])
  \/ \E tagID \in TagIdSpace : Accepts("w1") /\ DeleteTag("w1", "u1", tagID)
  \/ \E k \in 1..MaxVersions : Accepts("w1") /\ RestoreVersion("w1", "u1", 1, <<1, k>>)
  \/ TagSteps("w1")
  \/ ReadNoteTags("w1")
  \/ ProcLinkDelete("w1")
  \/ Finish("w1")
  \/ DeleteTag_Count("w1")
  \/ DeleteTag_Select("w1")
  \/ DeleteTag_Commit("w1")
  \/ RestoreSteps("w1")
  \/ IndexSteps
  \/ PurgeSteps
  \/ \E t \in BagToSet(tasks) : TaskLinkDelete(t)

SpecG == Init /\ [][NextG]_vars

(***************************************************************************)
(* SpecU: one user, one note, two workers; updates that supply a tag list, *)
(* an empty tag list or none, served concurrently, and reads of the note   *)
(***************************************************************************)
(* the tag lists of the CreateNoteRequests of SpecU *)
CreatesU == {<<>>, <<TagUpperT>>}

(* the UpdateNoteRequests of SpecU: title, tags *)
UpdatesU == {<<TitleB, NoTags>>, <<Nil, <<>>>>, <<Nil, <<TagX>>>>, <<Nil, <<TagUpperT, TagX>>>>}

NextU ==
  \/ \E tagNames \in CreatesU :
       Accepts("w1") /\ CreateNote("w1", 1, "u1", TitleA, BodyPlain, None, tagNames)
  \/ \E p \in Procs, req \in UpdatesU :
       Accepts(p) /\ UpdateNote(p, "u1", 1, req[1], Nil, None, req[2])
  \/ Accepts("w2") /\ GetNote("w2", "u1", 1)
  \/ \E p \in Procs : TagSteps(p)
  \/ \E p \in Procs : ReadNoteTags(p)
  \/ ProcLinkDelete("w1")
  \/ \E p \in Procs : Finish(p)
  \/ IndexSteps

SpecU == Init /\ [][NextU]_vars

(***************************************************************************)
(* SpecD: one user, two notes that carry a tag and link to the title they  *)
(* share, two workers; updates and deletes served concurrently             *)
(***************************************************************************)
NextD ==
  \/ \E id \in IdSpace :
       Accepts("w1") /\ CreateNote("w1", id, "u1", TitleA, BodyLinkA, None, <<TagT>>)
  \/ \E n \in IdSpace :
       Accepts("w1") /\ UpdateNote("w1", "u1", n, TitleB, BodyLinkA, None, <<TagT>>)
  \/ \E n \in IdSpace : Accepts("w2") /\ DeleteNote("w2", "u1", n)
  \/ TagSteps("w1")
  \/ LinkSteps("w1")
  \/ Finish("w1")
  \/ IndexSteps
  \/ PurgeSteps

SpecD == Init /\ [][NextD]_vars

(***************************************************************************)
(* SpecH: one user, one note, one request at a time; every operation that  *)
(* writes the note or its tags: update, tag replacement, restore, share,   *)
(* tag deletion and deletion of the note                                   *)
(***************************************************************************)
(* the UpdateNoteRequests of SpecH: title, tags *)
UpdatesH == {<<TitleB, NoTags>>, <<TitleA, NoTags>>, <<Nil, <<TagX>>>>, <<Nil, <<>>>>}

NextH ==
  \/ Accepts("w1") /\ CreateNote("w1", 1, "u1", TitleA, BodyPlain, None, <<TagT>>)
  \/ \E req \in UpdatesH :
       Accepts("w1") /\ UpdateNote("w1", "u1", 1, req[1], Nil, None, req[2])
  \/ \E k \in 1..MaxVersions : Accepts("w1") /\ RestoreVersion("w1", "u1", 1, <<1, k>>)
  \/ \E isPublic \in BOOLEAN : Accepts("w1") /\ ShareNote("w1", "u1", 1, isPublic)
  \/ Accepts("w1") /\ DeleteTag("w1", "u1", 1)
  \/ Accepts("w1") /\ DeleteNote("w1", "u1", 1)
  \/ TagSteps("w1")
  \/ ReadNoteTags("w1")
  \/ ProcLinkDelete("w1")
  \/ Finish("w1")
  \/ ShareNote_CheckSlug("w1")
  \/ TogglePublic("w1")
  \/ DeleteTag_Count("w1")
  \/ DeleteTag_Select("w1")
  \/ DeleteTag_Commit("w1")
  \/ RestoreSteps("w1")
  \/ IndexSteps
  \/ PurgeSteps
  \/ \E t \in BagToSet(tasks) : TaskLinkDelete(t)

SpecH == Init /\ [][NextH]_vars

(***************************************************************************)
(* SpecK: one user, two notes, two workers; one deletes a tag while the    *)
(* other gives the tag to a note, takes it from a note or deletes a note   *)
(***************************************************************************)
(* the tag lists of the requests of SpecK *)
TagListsK == {<<>>, <<TagT>>}

NextK ==
  \/ \E id \in IdSpace, tagNames \in TagListsK :
       Accepts("w2") /\ CreateNote("w2", id, "u1", TitleA, BodyPlain, None, tagNames)
  \/ \E n \in IdSpace, tagNames \in TagListsK :
       Accepts("w2") /\ UpdateNote("w2", "u1", n, Nil, Nil, None, tagNames)
  \/ \E n \in IdSpace : Accepts("w2") /\ DeleteNote("w2", "u1", n)
  \/ Accepts("w1") /\ DeleteTag("w1", "u1", 1)
  \/ TagSteps("w2")
  \/ ProcLinkDelete("w2")
  \/ Finish("w2")
  \/ DeleteTag_Count("w1")
  \/ DeleteTag_Select("w1")
  \/ DeleteTag_Commit("w1")
  \/ IndexSteps
  \/ PurgeSteps

SpecK == Init /\ [][NextK]_vars

(***************************************************************************)
(* SpecX: one user, one note, one request at a time; updates of the body   *)
(* and comparisons of any two of the versions they leave                   *)
(***************************************************************************)
(* the bodies of SpecX: lines changed, removed, blank, and with a newline at the end *)
BodiesX == {BodyABC, BodyAXC, BodyABlankC, BodyAC, BodyALine, BodyA}

NextX ==
  \/ \E body \in BodiesX : Accepts("w1") /\ CreateNote("w1", 1, "u1", TitleA, body, None, <<>>)
  \/ \E body \in BodiesX : Accepts("w1") /\ UpdateNote("w1", "u1", 1, Nil, body, None, NoTags)
  \/ \E oldVersionNum, newVersionNum \in 1..MaxVersions :
       Accepts("w1") /\ GetVersionDiff("w1", "u1", 1, oldVersionNum, newVersionNum)
  \/ ReadNoteTags("w1")
  \/ ProcLinkDelete("w1")
  \/ Finish("w1")
  \/ GetVersionDiff_Old("w1")
  \/ GetVersionDiff_New("w1")
  \/ \E t \in BagToSet(tasks) : IndexNote(t)

SpecX == Init /\ [][NextX]_vars

(***************************************************************************)
(* SpecE: one user, one note that links to its own title, one request at a *)
(* time; updates of the title alone and of the body alone, and restores    *)
(***************************************************************************)
(* the UpdateNoteRequests of SpecE: title, content_md *)
UpdatesE == {<<TitleB, Nil>>, <<TitleA, Nil>>, <<Nil, BodyPlain>>, <<Nil, BodyLinkA>>}

NextE ==
  \/ Accepts("w1") /\ CreateNote("w1", 1, "u1", TitleA, BodyLinkA, None, <<>>)
  \/ \E req \in UpdatesE :
       Accepts("w1") /\ UpdateNote("w1", "u1", 1, req[1], req[2], None, NoTags)
  \/ \E k \in 1..MaxVersions : Accepts("w1") /\ RestoreVersion("w1", "u1", 1, <<1, k>>)
  \/ ReadNoteTags("w1")
  \/ LinkSteps("w1")
  \/ Finish("w1")
  \/ RestoreVersion_GetVersion("w1")
  \/ RestoreVersion_Update("w1")
  \/ RestoreVersion_SetTags("w1")
  \/ RestoreVersion_Spawn("w1")
  \/ RestoreVersion_Return("w1")
  \/ \E t \in BagToSet(tasks) : IndexNote(t)
  \/ LinkTaskSteps

SpecE == Init /\ [][NextE]_vars

(***************************************************************************)
(* SpecW: one user, one note, two workers; each worker has one update of   *)
(* its own, with its body and its tag list, and the two run concurrently   *)
(***************************************************************************)
(* the UpdateNoteRequest of each worker: content_md, tags *)
UpdateW == [w1 |-> <<BodyLinkA, <<TagT>>>>, w2 |-> <<BodyPlain, <<TagX>>>>]

NextW ==
  \/ Accepts("w1") /\ CreateNote("w1", 1, "u1", TitleA, BodyPlain, None, <<>>)
  \/ \E p \in Procs :
       Accepts(p) /\ UpdateNote(p, "u1", 1, Nil, UpdateW[p][1], None, UpdateW[p][2])
  \/ \E p \in Procs : TagSteps(p)
  \/ \E p \in Procs : LinkSteps(p)
  \/ \E p \in Procs : Finish(p)
  \/ IndexSteps

SpecW == Init /\ [][NextW]_vars

(***************************************************************************)
(* SpecP: one user, one note created with a tag, one request at a time;    *)
(* updates that change the title and replace the tags in one call, and     *)
(* restores                                                                *)
(***************************************************************************)
(* the UpdateNoteRequests of SpecP: title, tags *)
UpdatesP == {<<TitleB, <<TagX>>>>, <<TitleA, <<>>>>, <<Nil, <<TagT>>>>}

NextP ==
  \/ Accepts("w1") /\ CreateNote("w1", 1, "u1", TitleA, BodyPlain, None, <<TagT>>)
  \/ \E req \in UpdatesP :
       Accepts("w1") /\ UpdateNote("w1", "u1", 1, req[1], Nil, None, req[2])
  \/ \E k \in 1..MaxVersions : Accepts("w1") /\ RestoreVersion("w1", "u1", 1, <<1, k>>)
  \/ TagSteps("w1")
  \/ ProcLinkDelete("w1")
  \/ Finish("w1")
  \/ RestoreSteps("w1")
  \/ \E t \in BagToSet(tasks) : IndexNote(t)
  \/ \E t \in BagToSet(tasks) : TaskLinkDelete(t)

SpecP == Init /\ [][NextP]_vars

(***************************************************************************)
(* SpecY: one user, one request at a time, each accepted only when the     *)
(* goroutines of the earlier ones have ended; the embedding service and    *)
(* the vector index never fail, and every goroutine and every handler that *)
(* has started runs on                                                     *)
(***************************************************************************)
(* the tag lists of the CreateNoteRequests of SpecY *)
CreatesY == {<<>>, <<TagT>>, <<TagBlank>>}

(* the UpdateNoteRequests of SpecY: title, tags *)
UpdatesY == {<<TitleB, NoTags>>, <<TitleA, <<TagT>>>>}

(* the history of note n can take the version a write may append *)
RoomForVersion(n) == n \in DOMAIN versions => Len(versions[n]) < MaxVersions

(* the steps that continue the request worker p is serving *)
HandlerStepsY(p) ==
  \/ TagSteps(p)
  \/ ReadNoteTags(p)
  \/ ProcLinkDelete(p)
  \/ Finish(p)
  \/ RestoreSteps(p)
  \/ DeleteTag_Count(p)
  \/ DeleteTag_Select(p)
  \/ DeleteTag_Commit(p)

(* the steps of the goroutines *)
GoroutineStepsY ==
  \/ \E t \in BagToSet(tasks) : IndexNote(t)
  \/ \E t \in BagToSet(tasks) : \E id \in t.ids : DeletePoint(t, id)
  \/ \E t \in BagToSet(tasks) : TaskLinkDelete(t)

NextY ==
  \/ \E id \in IdSpace, tagNames \in CreatesY :
       AcceptsWhenDone("w1") /\ CreateNote("w1", id, "u1", TitleA, BodyPlain, None, tagNames)
  \/ \E n \in IdSpace, req \in UpdatesY :
       AcceptsWhenDone("w1") /\ RoomForVersion(n)
         /\ UpdateNote("w1", "u1", n, req[1], Nil, None, req[2])
  \/ \E vid \in VersionIds :
       AcceptsWhenDone("w1") /\ RoomForVersion(vid[1])
         /\ RestoreVersion("w1", "u1", vid[1], vid)
  \/ \E n \in IdSpace : AcceptsWhenDone("w1") /\ DeleteNote("w1", "u1", n)
  \/ AcceptsWhenDone("w1") /\ DeleteTag("w1", "u1", 1)
  \/ HandlerStepsY("w1")
  \/ GoroutineStepsY

SpecY ==
  Init /\ [][NextY]_vars /\ WF_vars(HandlerStepsY("w1")) /\ WF_vars(GoroutineStepsY)

(***************************************************************************)
(* SpecS: one user, two notes, one request at a time; sharing, unsharing,  *)
(* public reads, and updates and restores of shared notes                  *)
(***************************************************************************)
NextS ==
  \/ \E title \in {TitleA, TitleA02}, id \in IdSpace :
       Accepts("w1") /\ CreateNote("w1", id, "u1", title, BodyPlain, None, <<>>)
  \/ \E n \in IdSpace, isPublic \in BOOLEAN : Accepts("w1") /\ ShareNote("w1", "u1", n, isPublic)
  \/ \E slug \in {SlugA, SlugA02} : Accepts("w1") /\ GetPublicNote("w1", slug)
  \/ Accepts("w1") /\ UpdateNote("w1", "u1", 2, TitleB, Nil, None, NoTags)
  \/ Accepts("w1") /\ RestoreVersion("w1", "u1", 2, <<2, 1>>)
  \/ ReadNoteTags("w1")
  \/ ProcLinkDelete("w1")
  \/ Finish("w1")
  \/ ShareNote_CheckSlug("w1")
  \/ TogglePublic("w1")
  \/ GetPublicNote_Return("w1")
  \/ RestoreVersion_GetVersion("w1")
  \/ RestoreVersion_Update("w1")
  \/ RestoreVersion_SetTags("w1")
  \/ RestoreVersion_Spawn("w1")
  \/ RestoreVersion_Return("w1")
  \/ \E t \in BagToSet(tasks) : IndexNote(t)
  \/ \E t \in BagToSet(tasks) : IncrementViewCount(t)
  \/ \E t \in BagToSet(tasks) : TaskLinkDelete(t)

SpecS == Init /\ [][NextS]_vars

(***************************************************************************)
(* Properties                                                              *)
(***************************************************************************)
(* worker p takes the step that leaves program point pc of an op request *)
Leaves(p, op, pc) == proc[p].op = op /\ proc[p].pc = pc /\ proc'[p] # proc[p]

(* worker p accepts a request op and gets past its first statement *)
Begins(p, op) ==
  proc[p].pc = "idle" /\ proc'[p] # proc[p] /\ proc'[p].op = op /\ proc'[p].pc # "idle"

Content(row) == <<row.title, row.body, row.src>>

HighestNumber(vs) ==
  IF vs = <<>> THEN 0
  ELSE CHOOSE m \in {vs[k].num : k \in 1..Len(vs)} : \A k \in 1..Len(vs) : vs[k].num <= m

(* the history of note n grows by exactly one row, numbered one above the highest *)
OneVersionAppended(n) ==
  /\ Len(versions'[n]) = Len(versions[n]) + 1
  /\ SubSeq(versions'[n], 1, Len(versions[n])) = versions[n]
  /\ versions'[n][Len(versions'[n])].num = HighestNumber(versions[n]) + 1
  /\ Content(versions'[n][Len(versions'[n])]) = Content(notes'[n])

(* C1: the statement of UpdateNote that changes the title or the body of a
   note appends exactly one version, numbered previous maximum + 1; an
   UpdateNote that changes no content field, in its first statement and in
   every later one (tag replacement, link rewrite, return), leaves the
   note's versions as they are. *)
C1_UpdateAppendsOneVersion ==
  [][\A p \in Procs :
       /\ Begins(p, "update") =>
            LET n == proc'[p].n IN
            /\ (notes'[n].title # notes[n].title \/ notes'[n].body # notes[n].body)
                 => OneVersionAppended(n)
            /\ Content(notes'[n]) = Content(notes[n]) => versions' = versions
       /\ (proc[p].op = "update" /\ proc[p].pc # "idle" /\ proc'[p] # proc[p])
            => versions' = versions]_vars

(* an UpdateNote that changed the title and the body has returned, and the note has its second version *)
C1_Witness ==
  \E p \in Procs :
    /\ proc[p].op = "update" /\ proc[p].res = "ok"
    /\ proc[p].n \in NoteIds
    /\ Len(versions[proc[p].n]) = 2
    /\ versions[proc[p].n][2].num = 2
    /\ versions[proc[p].n][2].title # versions[proc[p].n][1].title
    /\ versions[proc[p].n][2].body # versions[proc[p].n][1].body

(* C2: every note row has a version 1 from the statement that inserts it on:
   the insert leaves exactly one version, numbered 1, with the title, body
   and source URL of the new row, and that is still the whole history when
   CreateNote returns. *)
C2_CreateWritesVersionOne ==
  /\ [](\A n \in NoteIds :
          n \in DOMAIN versions /\ Len(versions[n]) >= 1 /\ versions[n][1].num = 1)
  /\ [][\A p \in Procs :
          /\ Begins(p, "create") =>
               LET n == proc'[p].n IN
               /\ n \notin NoteIds /\ n \in DOMAIN notes'
               /\ Len(versions'[n]) = 1
               /\ versions'[n][1].num = 1
               /\ Content(versions'[n][1]) = Content(notes'[n])
               /\ notes'[n].body = proc'[p].body
          /\ (Leaves(p, "create", "finish") /\ proc[p].n \in NoteIds)
               => /\ Len(versions[proc[p].n]) = 1
                  /\ Content(versions[proc[p].n][1]) = Content(notes[proc[p].n])]_vars

(* a CreateNote with a source URL has returned *)
C2_Witness ==
  \E p \in Procs :
    /\ proc[p].op = "create" /\ proc[p].res = "ok"
    /\ proc[p].n \in NoteIds
    /\ notes[proc[p].n].src # None
    /\ Len(versions[proc[p].n]) = 1

(* C4 as claimed: the write of every successful RestoreVersion appends
   exactly one version numbered current maximum + 1. *)
C4_RestoreAlwaysAppends ==
  [][\A p \in Procs :
       (Leaves(p, "restore", "restoreUpdate") /\ proc'[p].pc # "idle")
         => OneVersionAppended(proc[p].n)]_vars

(* C4 as amended: the write of RestoreVersion appends exactly one version,
   numbered current maximum + 1, when it changes the note's title, body or
   source URL, and none when it changes none of them (as when the snapshot
   is the note's current content); every step of a restore leaves the
   versions recorded before it unchanged, so the count never decreases. *)
C4_RestoreAppendsWhenContentChanges ==
  [][\A p \in Procs :
       /\ (Leaves(p, "restore", "restoreUpdate") /\ proc'[p].pc # "idle") =>
            LET n == proc[p].n IN
            IF Content(notes'[n]) # Content(notes[n])
            THEN OneVersionAppended(n)
            ELSE versions' = versions
       /\ (proc[p].op = "restore" /\ proc'[p] # proc[p]) =>
            \A n \in NoteIds :
              /\ n \in DOMAIN versions'
              /\ Len(versions'[n]) >= Len(versions[n])
              /\ SubSeq(versions'[n], 1, Len(versions[n])) = versions[n]]_vars

(* a restore of version 1 has written version 3, a copy of version 1, after version 2 *)
C4_Witness ==
  \E p \in Procs :
    /\ proc[p].op = "restore" /\ proc[p].pc \in {"restoreFindTags", "restoreSetTags"}
    /\ Len(versions[proc[p].n]) = 3
    /\ versions[proc[p].n][3].num = 3
    /\ Content(versions[proc[p].n][3]) = Content(versions[proc[p].n][1])
    /\ Content(versions[proc[p].n][3]) # Content(versions[proc[p].n][2])

(* C5: after the write of a successful RestoreVersion the note's title, body
   and source URL equal those of the snapshot. *)
C5_RestoreEqualsSnapshot ==
  [][\A p \in Procs :
       (Leaves(p, "restore", "restoreUpdate") /\ proc'[p].pc # "idle")
         => Content(notes'[proc[p].n]) = Content(proc[p].snap)]_vars

(* C3: under SpecC, where two workers update and restore the same note at
   the same time, the k-th version written for a note is numbered k, so the
   numbers are exactly 1..N in creation order, without duplicate or gap; and
   every step that changes the note's title, body or source URL appends
   exactly one version while every other step leaves the history as it is,
   so N-1 is the number of content-changing writes that succeeded. *)
C3_VersionNumbersGapless ==
  /\ [](\A n \in NoteIds :
          /\ n \in DOMAIN versions
          /\ \A k \in 1..Len(versions[n]) : versions[n][k].num = k)
  /\ [][\A n \in NoteIds \cap DOMAIN notes' :
          IF Content(notes'[n]) # Content(notes[n])
          THEN /\ Len(versions'[n]) = Len(versions[n]) + 1
               /\ SubSeq(versions'[n], 1, Len(versions[n])) = versions[n]
          ELSE versions'[n] = versions[n]]_vars

(* an update and a restore of the same note are both under way, each past its write: versions 1, 2, 3 *)
C3_Witness ==
  /\ proc["w1"].op \in {"update", "restore"} /\ proc["w2"].op \in {"update", "restore"}
  /\ proc["w1"].pc \in {"getTags", "finish", "restoreSetTags", "restoreSpawn", "restoreReturn"}
  /\ proc["w2"].pc \in {"getTags", "finish", "restoreSetTags", "restoreSpawn", "restoreReturn"}
  /\ 1 \in NoteIds
  /\ Len(versions[1]) = 3
  /\ versions[1][3].num = 3
  /\ Content(versions[1][3]) # Content(versions[1][2])

(* what CreateNote, UpdateNote and DeleteNote report: success, a rejected
   input, a missing note or a failed relational statement *)
RelationalOutcomes ==
  {None, "ok", "title is required", "content is required", "note not found",
   "failed to process tags", "failed to assign tags", "failed to update tags"}

(* C6: CreateNote and UpdateNote that got through their relational
   statements return success, and so does the DeleteNote of an owned note,
   whatever the vector index holds and whether the indexing goroutine ran,
   failed or is still to run; no result is a dependency failure; and a step
   of a goroutine, a failing one included, changes neither the relational
   store nor the result a caller got. *)
C6_DependencyFailuresAreSwallowed ==
  /\ [](\A p \in Procs : proc[p].res \in RelationalOutcomes)
  /\ [][/\ proc' = proc => rel' = rel
        /\ \A p \in Procs :
             /\ (Leaves(p, "create", "finish") \/ Leaves(p, "update", "finish"))
                  => /\ proc'[p].res = "ok"
                     /\ rel' = rel
                     /\ proc[p].n \in NoteIds
             /\ (proc[p].pc = "idle" /\ proc'[p] # proc[p] /\ proc'[p].op = "delete"
                   /\ Owned(proc'[p].u, proc'[p].n))
                  => /\ proc'[p].res = "ok"
                     /\ proc'[p].n \notin DOMAIN notes']_vars

(* CreateNote has returned success, its indexing goroutine has ended in failure, and the note is there *)
C6_Witness ==
  \E p \in Procs :
    /\ proc[p].op = "create" /\ proc[p].res = "ok" /\ proc[p].pc = "idle"
    /\ proc[p].n \in NoteIds
    /\ proc[p].n \notin DOMAIN vec
    /\ tasks = EmptyBag

(* C7, for CreateNote: when CreateNote has returned an error, the note row it
   was to insert is not in the store. *)
C7_FailedCreateLeavesNoNote ==
  \A p \in Procs :
    (proc[p].pc = "idle" /\ proc[p].op = "create" /\ proc[p].res \notin {None, "ok"})
      => proc[p].n \notin NoteIds

(* the tag associations of note m *)
TagsOf(nts, m) == {nt[2] : nt \in {x \in nts : x[1] = m}}

(* C8: the commit of DeleteTag(owner, tag) removes the tag and exactly the
   notes of the owner that carry it then, in that one step; every other
   note remains with its row, versions and tag associations as they were,
   and the links between remaining notes are as they were; the statements
   of DeleteTag before the commit change nothing. *)
C8_DeleteTagRemovesCarriers ==
  [][\A p \in Procs :
       /\ (Leaves(p, "deleteTag", "deleteTag") /\ proc'[p].res = "ok") =>
            LET u == proc[p].u
                t == proc[p].tgt
                carriers == {m \in NoteIds : notes[m].owner = u /\ <<m, t>> \in noteTags}
                rest == NoteIds \ carriers
            IN /\ DOMAIN notes' = rest
               /\ DOMAIN tags' = TagIds \ {t}
               /\ \A x \in TagIds \ {t} : tags'[x] = tags[x]
               /\ \A m \in rest :
                    /\ notes'[m] = notes[m]
                    /\ versions'[m] = versions[m]
                    /\ TagsOf(noteTags', m) = TagsOf(noteTags, m)
               /\ links' = {l \in links : l[1] \in rest /\ l[2] \in rest}
       /\ (proc'[p] # proc[p]
             /\ \/ proc[p].pc = "idle" /\ proc'[p].op = "deleteTag"
                \/ proc[p].pc \in {"countNotes", "selectNotes"}
                \/ proc[p].pc = "deleteTag" /\ proc'[p].res # "ok")
            => rel' = rel]_vars

(* DeleteTag has removed one note of the owner and left another one, its link included *)
C8_Witness ==
  \E p \in Procs, m \in NoteIds :
    /\ proc[p].op = "deleteTag" /\ proc[p].res = "ok" /\ proc[p].count = 1
    /\ proc[p].tgt \notin TagIds
    /\ notes[m].owner = proc[p].u
    /\ nextId = 2
    /\ Cardinality(NoteIds) = 1
    /\ <<m, m>> \in links

(* the notes of user u whose title equals title when case is ignored *)
TitleMatches(u, title) ==
  {m \in NoteIds : notes[m].owner = u /\ ToLower(notes[m].title) = ToLower(title)}

(* the outbound edges of note s are those its body derives: each goes to a
   note of the owner matching an extracted title, and every extracted title
   that matches a note has one *)
EdgesDerived(s) ==
  LET titles == ExtractNoteLinks(notes[s].body)
      out == {l[2] : l \in {x \in links : x[1] = s}}
  IN /\ \A m \in out : \E k \in 1..Len(titles) : m \in TitleMatches(notes[s].owner, titles[k])
     /\ \A k \in 1..Len(titles) :
          TitleMatches(notes[s].owner, titles[k]) # {}
            => out \cap TitleMatches(notes[s].owner, titles[k]) # {}
     /\ Cardinality(out) <= Len(titles)

(* C9: when CreateNote, or an UpdateNote that supplies a body, returns for
   note S (requests served one at a time), the outbound edges of S are
   exactly those derived from its body: one to a note of the same owner for
   each extracted title that matches a title when case is ignored, none for
   a title that matches no note of the owner, and no other edge. *)
C9_EdgesMatchBody ==
  [][\A p \in Procs :
       ((Leaves(p, "create", "finish") \/ (Leaves(p, "update", "finish") /\ proc[p].body # Nil))
          /\ proc[p].n \in NoteIds)
         => /\ notes[proc[p].n].body = proc[p].body
            /\ EdgesDerived(proc[p].n)]_vars

(* an update has returned for a note whose body names A and b: it is linked to
   the note titled a, and to nothing else although another user has a note b *)
C9_Witness ==
  \E p \in Procs, s \in NoteIds, m \in NoteIds, o \in NoteIds :
    /\ proc[p].op = "update" /\ proc[p].res = "ok" /\ proc[p].n = s
    /\ notes[s].body = BodyLinkAB
    /\ notes[m].title = TitleA /\ notes[m].owner = notes[s].owner
    /\ notes[o].title = TitleB /\ notes[o].owner # notes[s].owner
    /\ {l \in links : l[1] = s} = {<<s, m>>}

(* the operations of C10 and what each reports for a note it does not find *)
NotFound ==
  [get |-> "note not found", update |-> "note not found", delete |-> "note not found",
   share |-> "note not found", versions |-> "note not found or access denied",
   restore |-> "note not found or access denied"]

(* C10: when GetNote, UpdateNote, DeleteNote, ShareNote, ListVersions or
   RestoreVersion is asked for a note the requester does not own, whether
   the note is another user's or does not exist, the request ends in its
   first statement with the operation's not-found result and nothing else
   in its reply, and the relational store, the vector index and the
   goroutines are as before. *)
C10_ForeignNoteIsNotFound ==
  [][\A p \in Procs :
       (proc[p].pc = "idle" /\ proc'[p] # proc[p] /\ proc'[p].op \in DOMAIN NotFound
          /\ ~(proc'[p].n \in NoteIds /\ notes[proc'[p].n].owner = proc'[p].u))
         => /\ proc'[p] = [Idle EXCEPT !.op = proc'[p].op, !.u = proc'[p].u, !.n = proc'[p].n,
                                       !.res = NotFound[proc'[p].op]]
            /\ rel' = rel
            /\ vec' = vec
            /\ tasks' = tasks]_vars

(* user u2 asked to update the note of u1 and was told it is not found; the note is as u1 wrote it *)
C10_Witness ==
  \E p \in Procs :
    /\ proc[p].op = "update" /\ proc[p].u = "u2" /\ proc[p].res = "note not found"
    /\ proc[p].n \in NoteIds
    /\ notes[proc[p].n].owner = "u1"
    /\ notes[proc[p].n].title = TitleA
    /\ Len(versions[proc[p].n]) = 1

(* the payload an indexing goroutine carries *)
Payload(t) == [owner |-> t.u, title |-> t.title, body |-> t.body]

(* C11: the goroutines that write the vector index are not ordered and
   nothing re-checks: an indexing goroutine that is still running can always
   apply its upsert, whether or not its note still exists and whether or not
   the delete of the note's point has been applied, and the entry then is the
   payload it carries; a delete removes the entry whatever wrote it; only
   these goroutines write the vector index, and they write nothing else.
   The interleaving of the claim is the witness. *)
C11_LastAppliedWins ==
  /\ [](\A t \in Running("index") :
          ENABLED (IndexNote(t) /\ t.n \in DOMAIN vec' /\ vec'[t.n] = Payload(t)))
  /\ [][vec' # vec =>
          /\ rel' = rel /\ proc' = proc
          /\ \E t \in BagToSet(tasks) :
               \/ t.kind = "index" /\ vec' = With(vec, t.n, Payload(t))
               \/ t.kind = "delete" /\ \E id \in t.ids : vec' = Without(vec, {id})]_vars

(* no call failed, every goroutine has finished, and the vector index holds an entry for a deleted note *)
C11_Witness ==
  /\ tasks = EmptyBag
  /\ proc["w1"].op = "delete" /\ proc["w1"].res = "ok"
  /\ 1 \notin NoteIds
  /\ 1 \in DOMAIN vec

(* the notes of user u that carry a tag whose name is among names, normalised *)
CarriesOneOf(u, names) ==
  {m \in NoteIds :
     /\ notes[m].owner = u
     /\ \E t \in TagIds : /\ <<m, t>> \in noteTags
                          /\ tags[t].owner = u
                          /\ \E k \in 1..Len(names) : tags[t].name = ToLower(TrimSpace(names[k]))}

(* C12: a ListNotes with a non-empty tag filter returns exactly the owner's
   notes that carry at least one tag named in the filter, and their number
   as the total; so a filter of unknown names returns no note and total 0. *)
C12_FilterReturnsOnlyCarriers ==
  [][\A p \in Procs :
       (Leaves(p, "list", "listTags") /\ Len(proc[p].tags) > 0)
         => /\ proc'[p].res = "ok"
            /\ proc'[p].ids = CarriesOneOf(proc[p].u, proc[p].tags)
            /\ proc'[p].count = Cardinality(CarriesOneOf(proc[p].u, proc[p].tags))]_vars

(* the tags of user u whose name is in the tag list of a snapshot *)
SnapshotTags(u, snap) ==
  {t \in TagIds : tags[t].owner = u /\ tags[t].name \in {ToLower(TrimSpace(nm)) : nm \in snap.tags}}

(* C13: once RestoreVersion has done its tag statements, the note carries
   exactly the owner's existing tags named in the snapshot's tag list: none
   when the snapshot lists no tag or none of the listed tags exists. *)
C13_RestoreSetsSnapshotTags ==
  [][\A p \in Procs :
       (Leaves(p, "restore", "restoreSpawn") /\ proc[p].n \in NoteIds)
         => TagsOf(noteTags, proc[p].n) = SnapshotTags(proc[p].u, proc[p].snap)]_vars

(* C14: when a ShareNote(isPublic = true) that stores a slug found the
   slug derived from the title held by a note, the slug it stores is the
   derived one followed by "-" and the leading characters of the note's
   id, and otherwise the derived one; and in every state no two notes hold
   the same public slug. *)
C14_SuffixedSlugAndUniqueness ==
  /\ [](\A m, n \in NoteIds : (m # n /\ notes[m].slug # Nil) => notes[m].slug # notes[n].slug)
  /\ [][\A p \in Procs :
          (Leaves(p, "share", "toggle") /\ proc[p].pub /\ proc'[p].res = "ok") =>
            LET n == proc[p].n
                derived == generateSlug(notes[n].title, n)
                held == \E m \in NoteIds : notes[m].slug = derived
            IN notes'[n].slug = IF held THEN derived \o <<"-">> \o IdPrefix(n) ELSE derived]_vars

(* both notes are titled a: note 1 holds the slug a and note 2, shared after it, the suffixed one *)
C14_Witness ==
  /\ NoteIds = {1, 2}
  /\ notes[1].title = TitleA /\ notes[2].title = TitleA
  /\ notes[1].slug = SlugA
  /\ notes[2].slug = SlugA02
  /\ proc["w1"].op = "share" /\ proc["w1"].res = "ok" /\ proc["w1"].n = 2

(* C15: a ShareNote(isPublic = true) on a note of the caller that reaches
   its write returns success, whatever slugs are in use. *)
C15_ShareNeverFailsOnCollision ==
  [][\A p \in Procs :
       (Leaves(p, "share", "toggle") /\ proc[p].pub /\ Owned(proc[p].u, proc[p].n))
         => proc'[p].res = "ok"]_vars

(* the visibility fields of a note row *)
Visibility(row) == <<row.pub, row.slug, row.shared>>

(* C16: in every state a note has a public slug, and a shared-at time,
   exactly when it is public; a note is inserted private without a slug;
   and the only step that changes a visibility field of a note is the write
   of a ShareNote on that note, which sets the flag it was asked to set:
   UpdateNote, RestoreVersion and the view-count increment change none. *)
C16_SlugIffPublic ==
  /\ [](\A n \in NoteIds :
          /\ notes[n].slug # Nil <=> notes[n].pub
          /\ notes[n].shared <=> notes[n].pub)
  /\ [][/\ \A n \in (DOMAIN notes') \ NoteIds : Visibility(notes'[n]) = <<FALSE, Nil, FALSE>>
        /\ \A n \in NoteIds \cap DOMAIN notes' :
             Visibility(notes'[n]) # Visibility(notes[n]) =>
               \E p \in Procs : /\ Leaves(p, "share", "toggle")
                                /\ proc[p].n = n
                                /\ notes'[n].pub = proc[p].pub]_vars

(* a note that was public and viewed has been made private, after an update: no slug, the view still counted *)
C16_Witness ==
  /\ proc["w1"].op = "share" /\ proc["w1"].res = "ok" /\ proc["w1"].n = 2
  /\ 2 \in NoteIds
  /\ ~notes[2].pub /\ notes[2].slug = Nil /\ ~notes[2].shared
  /\ notes[2].views = 1
  /\ notes[2].title = TitleB


(***************************************************************************)
(* Tag replacement by UpdateNote                                           *)
(***************************************************************************)
(* the tags of user u that the names of a request resolve to *)
ResolvedTags(u, names) ==
  {t \in TagIds : tags[t].owner = u /\ \E k \in 1..Len(names) : tags[t].name = NormalizeTag(names[k])}

(* worker p takes a step of an UpdateNote: it accepts one, or moves on in one *)
UpdateSteps(p) ==
  /\ proc'[p] # proc[p]
  /\ \/ proc[p].pc = "idle" /\ proc'[p].op = "update"
     \/ proc[p].pc # "idle" /\ proc[p].op = "update"

(* the step of an UpdateNote in which SetNoteTags commits *)
TagsReplaced(p) == Leaves(p, "update", "setTags") /\ proc'[p].pc # "idle"

(* C17: an UpdateNote that supplies tag names, the empty list included,    *)
(* leaves the note with exactly the tags those names resolve to (none for  *)
(* the empty list) at the step where it sets them; an UpdateNote that      *)
(* omits the tag names changes no tag association of the note in any of    *)
(* its steps, and neither does any other step of an UpdateNote             *)
C17_UpdateReplacesTagSet ==
  [][\A p \in Procs :
       /\ TagsReplaced(p) =>
            /\ proc[p].tags # NoTags
            /\ TagsOf(noteTags', proc[p].n) = ResolvedTags(proc[p].u, proc[p].tags)
            /\ proc[p].tags = <<>> => TagsOf(noteTags', proc[p].n) = {}
       /\ UpdateSteps(p) /\ ~TagsReplaced(p) =>
            TagsOf(noteTags', proc'[p].n) = TagsOf(noteTags, proc'[p].n)
       /\ UpdateSteps(p) /\ proc'[p].pc = "getTags" => proc'[p].tags = NoTags
       /\ Leaves(p, "update", "getTags") => proc[p].tags = NoTags]_vars

(* an UpdateNote has replaced the tag T of the note by the tag x, and is about to return *)
C17_Witness ==
  \E p \in Procs :
    /\ proc[p].op = "update" /\ proc[p].pc = "finish" /\ proc[p].tags = <<TagX>>
    /\ TagByName("u1", TagT) # {}
    /\ GetNoteTags(1) = {TagX}


(***************************************************************************)
(* Deletion of a note                                                      *)
(***************************************************************************)
(* no row of the relational store refers to note n *)
NothingRemains(n, ns, vs, nts, ls) ==
  /\ n \notin DOMAIN ns
  /\ n \notin DOMAIN vs
  /\ \A nt \in nts : nt[1] # n
  /\ \A l \in ls : l[1] # n /\ l[2] # n

(* worker p serves a DeleteNote that succeeds *)
DeleteSucceeds(p) ==
  /\ proc[p].pc = "idle" /\ proc'[p] # proc[p]
  /\ proc'[p].op = "delete" /\ proc'[p].res = "ok"

(* C18: when DeleteNote succeeds no tag association, no edge from or to    *)
(* the note and no version of it is left, and nothing brings such a row    *)
(* back afterwards; the goroutine that deletes the index entry is started  *)
(* by that same step, after the relational delete, so a pending index      *)
(* delete and every removal of an index entry is for a note whose row is   *)
(* already gone                                                            *)
C18_DeleteCascadesThenPurges ==
  /\ [][\A p \in Procs :
          DeleteSucceeds(p) =>
            /\ proc'[p].n \in NoteIds
            /\ NothingRemains(proc'[p].n, notes', versions', noteTags', links')
            /\ tasks' = tasks (+) SetToBag({DeleteTask({proc'[p].n})})
            /\ vec' = vec]_vars
  /\ [](\A n \in (1..nextId) \ NoteIds : NothingRemains(n, notes, versions, noteTags, links))
  /\ [](\A t \in BagToSet(tasks) : t.kind = "delete" => t.ids \cap NoteIds = {})
  /\ [][\A n \in (DOMAIN vec) \ (DOMAIN vec') : n \notin NoteIds]_vars

(* note 1 has been deleted while note 2, which could link to it, is kept;  *)
(* the delete of its index entry is pending and the entry is still there   *)
C18_Witness ==
  /\ proc["w2"].op = "delete" /\ proc["w2"].res = "ok" /\ proc["w2"].n = 1
  /\ 2 \in NoteIds /\ 1 \notin NoteIds
  /\ 1 \in DOMAIN vec
  /\ \E t \in BagToSet(tasks) : t.kind = "delete" /\ t.ids = {1}


(***************************************************************************)
(* Immutability of the version history                                     *)
(***************************************************************************)
(* history b is history a with versions appended, or a itself *)
Extends(a, b) == Len(a) <= Len(b) /\ SubSeq(b, 1, Len(a)) = a

(* worker p takes a step of an UpdateNote, a RestoreVersion or a ShareNote *)
WriterSteps(p) ==
  /\ proc'[p] # proc[p]
  /\ \/ proc[p].pc = "idle" /\ proc'[p].op \in {"update", "restore", "share"}
     \/ proc[p].pc # "idle" /\ proc[p].op \in {"update", "restore", "share"}

(* C19: in every step the versions of a note that still exists are the     *)
(* ones it had, each with its number, title, body, source URL and tag      *)
(* list, possibly followed by new ones; a history goes away only in a      *)
(* step that deletes its note; the steps of UpdateNote (tag replacement    *)
(* included), RestoreVersion and ShareNote delete no note and so only      *)
(* append or leave the history untouched                                   *)
C19_VersionsAppendOnly ==
  [][/\ \A n \in (DOMAIN versions) \cap NoteIds' :
          n \in DOMAIN versions' /\ Extends(versions[n], versions'[n])
     /\ \A n \in (DOMAIN versions) \ (DOMAIN versions') : n \in NoteIds /\ n \notin NoteIds'
     /\ \A p \in Procs :
          WriterSteps(p) =>
            /\ NoteIds' = NoteIds
            /\ DOMAIN versions' = DOMAIN versions
            /\ \A n \in DOMAIN versions : Extends(versions[n], versions'[n])]_vars

(* the note is shared, its tag T has been replaced, and a restore has      *)
(* appended the third version; version 2 still lists the tag T             *)
C19_Witness ==
  /\ 1 \in NoteIds /\ notes[1].pub
  /\ Len(versions[1]) = 3
  /\ versions[1][2].tags = {TagT} /\ GetNoteTags(1) # {TagT}
  /\ proc["w1"].op = "restore" /\ proc["w1"].res = "ok"


(***************************************************************************)
(* The tag list of a returned note                                         *)
(***************************************************************************)
(* the tag names a returned *Note carries; a nil Tags carries none *)
ReturnedNames(note) == IF note.tags = NoTags THEN {} ELSE SeqToSet(note.tags)

(* worker p returns the note of a CreateNote, or of an UpdateNote that supplied tag names *)
ReturnsTagged(p) ==
  \/ Leaves(p, "create", "finish")
  \/ Leaves(p, "update", "finish") /\ proc[p].tags # NoTags

(* C20: the note that CreateNote returns, and the note that UpdateNote     *)
(* returns when tag names were supplied, carries the tag names stored for  *)
(* the note at that moment, the names a GetNote would read                 *)
C20_ReturnedTagsAreStored ==
  [][\A p \in Procs :
       ReturnsTagged(p) => ReturnedNames(proc[p].ret) = GetNoteTags(proc[p].n)]_vars


(***************************************************************************)
(* The count of DeleteTag                                                  *)
(***************************************************************************)
(* worker p returns from a DeleteTag that succeeded *)
DeleteTagSucceeds(p) == Leaves(p, "deleteTag", "deleteTag") /\ proc'[p].res = "ok"

(* C21: the count a successful DeleteTag returns is the number of notes    *)
(* its transaction deleted, whatever the other worker did to the notes and *)
(* their tags while the call was running                                   *)
C21_CountIsNotesDeleted ==
  [][\A p \in Procs :
       DeleteTagSucceeds(p) => proc'[p].count = Cardinality(NoteIds \ NoteIds')]_vars


(***************************************************************************)
(* The content diff                                                        *)
(***************************************************************************)
(* the records of the positional diff at index i and after it, as type and content *)
RECURSIVE PositionalFrom(_, _, _)
PositionalFrom(oldLines, newLines, i) ==
  IF i > Len(oldLines) /\ i > Len(newLines) THEN <<>>
  ELSE (IF i <= Len(oldLines) /\ i <= Len(newLines) /\ oldLines[i] = newLines[i]
        THEN <<<<"unchanged", oldLines[i]>>>>
        ELSE (IF i <= Len(oldLines) THEN <<<<"removed", oldLines[i]>>>> ELSE <<>>)
             \o (IF i <= Len(newLines) THEN <<<<"added", newLines[i]>>>> ELSE <<>>))
       \o PositionalFrom(oldLines, newLines, i + 1)

(* the type and content of the records of a diff *)
Records(diff) == [k \in 1..Len(diff) |-> <<diff[k].type, diff[k].content>>]

(* worker p returns the VersionDiff of a GetVersionDiff *)
DiffReturned(p) == Leaves(p, "diff", "diffNew") /\ proc'[p].res = "ok"

(* C22: the content diff that GetVersionDiff returns for two versions is   *)
(* the positional line diff of their bodies: index by index one unchanged  *)
(* record when both have the same line there, otherwise a removed record   *)
(* for the old line when the old body has one, then an added record for    *)
(* the new line when the new body has one                                  *)
C22_DiffIsPositional ==
  [][\A p \in Procs :
       DiffReturned(p) =>
         Records(proc'[p].ret.contentDiff) =
           PositionalFrom(SplitLines(proc'[p].ret.oldVersion.body),
                          SplitLines(proc'[p].ret.newVersion.body), 1)]_vars


(***************************************************************************)
(* Recomputation of the outbound edges                                     *)
(***************************************************************************)
(* worker p returns the note of a CreateNote, an UpdateNote or a RestoreVersion *)
WriteReturns(p) ==
  \/ Leaves(p, "create", "finish")
  \/ Leaves(p, "update", "finish")
  \/ Leaves(p, "restore", "restoreReturn")

(* C23: when a write of note S returns, the outbound edges of S are those  *)
(* derived from its current body and the owner's titles.  With one note    *)
(* and one request at a time the derived edges change only in a write that *)
(* changes the title or the body of S, so if every such write recomputed   *)
(* the edges, they are the derived ones at the return of every write, an   *)
(* UpdateNote that changes only the title included                         *)
C23_EdgesRecomputedOnWrite ==
  [][\A p \in Procs :
       WriteReturns(p) /\ proc[p].n \in NoteIds => EdgesDerived(proc[p].n)]_vars

(* C24: when RestoreVersion returns, processNoteLinks has run for the      *)
(* restored body: no link maintenance of the note is pending or running    *)
(* and the outbound edges of the note are those derived from its body      *)
C24_RestoreLinksBeforeReturn ==
  [][\A p \in Procs :
       Leaves(p, "restore", "restoreReturn") /\ proc[p].n \in NoteIds =>
         /\ \A t \in BagToSet(tasks) : ~(t.kind = "links" /\ t.n = proc[p].n)
         /\ EdgesDerived(proc[p].n)]_vars


(***************************************************************************)
(* Concurrent updates of one note                                          *)
(***************************************************************************)
(* note n is as the UpdateNote of worker p alone leaves it: its body, the  *)
(* tags its names resolve to, and the edges its body derives               *)
LeftBy(p, n) ==
  /\ notes[n].body = UpdateW[p][1]
  /\ TagsOf(noteTags, n) = ResolvedTags(notes[n].owner, UpdateW[p][2])
  /\ EdgesDerived(n)

(* C25: once the updates of both workers have returned with success, the   *)
(* note's body, tag set and outbound edges are those of one and the same   *)
(* update, however the two calls were interleaved                          *)
C25_ConcurrentUpdatesLastWins ==
  (/\ 1 \in NoteIds
   /\ \A p \in Procs : proc[p].pc = "idle" /\ proc[p].op = "update" /\ proc[p].res = "ok")
    => \E p \in Procs : LeftBy(p, 1)


(***************************************************************************)
(* Errors of the relational store on the synchronous path                  *)
(***************************************************************************)
(* the statement worker p is about to run is rejected by the store: a      *)
(* foreign key of note_links or note_tags, the primary key of note_tags,   *)
(* or UNIQUE (user_id, name) of tags                                       *)
StoreRejects(p) ==
  \/ proc[p].pc = "linkCreate" /\ ~CreateLinkOK(proc[p])
  \/ proc[p].pc \in {"setTags", "restoreSetTags"} /\ ~SetNoteTagsCommits(proc[p].n, proc[p].tagIDs)
  \/ proc[p].pc = "tagInsert" /\ TagByName(proc[p].u, proc[p].name) # {}

(* C26: when a statement of CreateNote, UpdateNote or RestoreVersion is    *)
(* rejected by the relational store, the call ends there and returns an    *)
(* error                                                                   *)
C26_StoreFailureIsReturned ==
  [][\A p \in Procs :
       (proc[p].op \in {"create", "update", "restore"} /\ StoreRejects(p) /\ proc'[p] # proc[p])
         => proc'[p].pc = "idle" /\ proc'[p].res \notin {None, "ok"}]_vars


(***************************************************************************)
(* The tag list of a version                                               *)
(***************************************************************************)
(* the step appends a version to the history of note n *)
VersionAppended(n) ==
  n \in DOMAIN versions /\ n \in DOMAIN versions' /\ Len(versions'[n]) = Len(versions[n]) + 1

(* C27: version 1 of every note records no tag; a version appended by an   *)
(* UpdateNote or a RestoreVersion records the tag names the note carries   *)
(* when the row is written, and that step leaves the tag associations as   *)
(* they are: the tags the call supplies or restores are set afterwards     *)
C27_VersionRecordsTagsBeforeCall ==
  /\ [](\A n \in DOMAIN versions : versions[n] # <<>> => versions[n][1].tags = {})
  /\ [][\A n \in DOMAIN versions :
          VersionAppended(n) =>
            /\ versions'[n][Len(versions'[n])].tags = GetNoteTags(n)
            /\ noteTags' = noteTags]_vars

(* UpdateNote with a new title and the tag x has returned for the note     *)
(* created with the tag t: version 1 records no tag, version 2 records t,  *)
(* and the note carries x                                                  *)
C27_Witness ==
  /\ proc["w1"].op = "update" /\ proc["w1"].res = "ok" /\ proc["w1"].pc = "idle"
  /\ 1 \in NoteIds /\ Len(versions[1]) = 2
  /\ versions[1][1].tags = {} /\ versions[1][2].tags = {TagT}
  /\ GetNoteTags(1) = {TagX}


(***************************************************************************)
(* Tag names that resolve to the same tag                                  *)
(***************************************************************************)
(* worker p is about to set tags of which two or more of the supplied      *)
(* names resolved to the same one, on a note and with tags that exist      *)
SetsRepeatedTag(p) ==
  /\ Leaves(p, "create", "setTags") \/ Leaves(p, "update", "setTags")
  /\ \E j, k \in 1..Len(proc[p].tagIDs) : j # k /\ proc[p].tagIDs[j] = proc[p].tagIDs[k]
  /\ proc[p].n \in NoteIds
  /\ SeqToSet(proc[p].tagIDs) \subseteq TagIds

(* C28: when names of a CreateNote or an UpdateNote resolve to the same    *)
(* tag, the call goes on to succeed and the note carries each resolved tag *)
(* once                                                                    *)
C28_SameTagTwiceSucceeds ==
  [][\A p \in Procs :
       SetsRepeatedTag(p) =>
         /\ proc'[p].pc # "idle"
         /\ TagsOf(noteTags', proc[p].n) = SeqToSet(proc[p].tagIDs)]_vars


(***************************************************************************)
(* Sharing a note that is already public                                   *)
(***************************************************************************)
(* note n is public under a slug made from the title it has now *)
SharedUnderTitle(n) ==
  /\ n \in NoteIds /\ notes[n].pub
  /\ LET slug == generateSlug(notes[n].title, n)
     IN notes[n].slug \in {slug, slug \o <<"-">> \o IdPrefix(n)}

(* C29: the write of a ShareNote(isPublic = true) on a note that is public *)
(* under a slug made from its present title leaves the slug of the note as *)
(* it is                                                                   *)
C29_ShareAgainKeepsSlug ==
  [][\A p \in Procs :
       (Leaves(p, "share", "toggle") /\ proc[p].pub /\ SharedUnderTitle(proc[p].n))
         => notes'[proc[p].n].slug = notes[proc[p].n].slug]_vars


(***************************************************************************)
(* Convergence of the vector index                                         *)
(***************************************************************************)
(* no request is being served and no goroutine is left *)
Quiet == tasks = EmptyBag /\ \A p \in Procs : proc[p].pc = "idle"

(* the vector index has an entry for exactly the notes of the relational   *)
(* store, each with the owner, title and body of its row                   *)
InSync ==
  /\ DOMAIN vec = NoteIds
  /\ \A n \in NoteIds :
       vec[n] = [owner |-> notes[n].owner, title |-> notes[n].title, body |-> notes[n].body]

(* C30: with no failure of the embedding service or the vector index, with *)
(* every goroutine running on and with each request issued after the       *)
(* goroutines of the earlier ones have ended, the goroutines always come   *)
(* to an end, and whenever they have, the vector index agrees with the     *)
(* relational store                                                        *)
C30_IndexConverges ==
  /\ []<>Quiet
  /\ [](Quiet => InSync)

====
